---- MODULE Spec2Model ----
(***************************************************************************)
(* ShackStats site builder (buildSite.ts): one run of go() as a state      *)
(* machine.  The post table and the wall-clock day are the inputs; the     *)
(* data directory, the author-to-id map and the S3 bucket are the state.   *)
(*                                                                         *)
(* Strings that the program inspects character by character (user names,   *)
(* user ids) are sequences of one-character strings.  A calendar date is   *)
(* a day number (days since 1970-01-01); its formatted form 'YYYY-MM-DD'   *)
(* is the triple <<year, month, day>>.                                     *)
(***************************************************************************)
EXTENDS Integers, Sequences, FiniteSets, TLC

VARIABLES
    posts,          \* the post table: sequence of rows, position = id
    today,          \* day number of new Date()
    pc,             \* position in go()
    rs,             \* buildUsersFile: rows of the author query
    usersIdx,       \* buildUsersFile: rows of rs already handled by forEach
    seen,           \* buildUsersFile: ids handed out so far (id -> username)
    userIdMap,      \* author_c -> id
    periodIdx,      \* index into PERIODS of the running per-granularity loop
    dataDir,        \* SHACKSTATS_WEB_DIR/data: filename -> file contents
    filenames,      \* buildPeriodUserPostCountsFiles: scoreboard files written
    allPeriods,     \* buildPeriodUserPostCountsFiles: result of getAllPeriods()
    remote,         \* the S3 bucket: key -> contents
    uploadList,     \* uploadFiles: filenames (the keys of newFilesToUpload)
    uploadIdx,      \* uploadFiles: uploads already completed
    exitCode,       \* process exit code, -1 while running
    runs,           \* the runs that ended before this one: what each uploaded
    currentPeriods, \* streaming scoreboard: the open period of each granularity
    cursor          \* streaming scoreboard: rows of the query delivered so far

vars == <<posts, today, pc, rs, usersIdx, seen, userIdMap, periodIdx, dataDir,
          filenames, allPeriods, remote, uploadList, uploadIdx, exitCode, runs,
          currentPeriods, cursor>>

(***************************************************************************)
(* Bounds of the model.                                                    *)
(***************************************************************************)
MaxAuthors == 3     \* authors in the identity-assignment inputs
MaxPosts == 2       \* posts in the aggregation inputs
MaxToday == 216     \* days after the epoch start that "today" can be
MaxVersions == 2    \* distinct contents an artifact can have
MaxRuns == 2        \* runs of the program, one after the other
MaxLen == 3         \* characters of a string value written to a CSV field

(***************************************************************************)
(* Characters and strings.                                                 *)
(***************************************************************************)
UpperChars == <<"A","B","C","D","E","F","G","H","I","J","K","L","M",
                "N","O","P","Q","R","S","T","U","V","W","X","Y","Z">>
LowerChars == <<"a","b","c","d","e","f","g","h","i","j","k","l","m",
                "n","o","p","q","r","s","t","u","v","w","x","y","z">>
DigitChars == <<"0","1","2","3","4","5","6","7","8","9">>

Range(s) == {s[k] : k \in DOMAIN s}

\* String.prototype.toLowerCase on one character
toLowerCase(ch) ==
    IF \E k \in DOMAIN UpperChars : UpperChars[k] = ch
    THEN LowerChars[CHOOSE k \in DOMAIN UpperChars : UpperChars[k] = ch]
    ELSE ch

\* Number-to-string conversion of `prefix + suffix` (decimal digits)
RECURSIVE NumberToString(_)
NumberToString(n) ==
    IF n < 10 THEN <<DigitChars[n + 1]>>
    ELSE NumberToString(n \div 10) \o <<DigitChars[(n % 10) + 1]>>

(***************************************************************************)
(* Calendar: what moment and PostgreSQL compute on dates.                  *)
(***************************************************************************)
IsLeapYear(y) == (y % 4 = 0 /\ y % 100 # 0) \/ y % 400 = 0

\* parse of 'YYYY-MM-DD' to a day number
DaysFromCivil(y, m, d) ==
    LET yy  == IF m <= 2 THEN y - 1 ELSE y
        era == yy \div 400
        yoe == yy - era * 400
        mp  == (m + 9) % 12
        doy == (153 * mp + 2) \div 5 + d - 1
        doe == yoe * 365 + yoe \div 4 - yoe \div 100 + doy
    IN  era * 146097 + doe - 719468

\* format("YYYY-MM-DD") / TO_CHAR(.., 'YYYY-MM-DD') of a day number
FormatDate(z) ==
    LET zz  == z + 719468
        era == zz \div 146097
        doe == zz - era * 146097
        yoe == (doe - doe \div 1460 + doe \div 36524 - doe \div 146096) \div 365
        doy == doe - (365 * yoe + yoe \div 4 - yoe \div 100)
        mp  == (5 * doy + 2) \div 153
        d   == doy - (153 * mp + 2) \div 5 + 1
        m   == IF mp < 10 THEN mp + 3 ELSE mp - 9
        y   == yoe + era * 400 + (IF m <= 2 THEN 1 ELSE 0)
    IN  <<y, m, d>>

ParseDate(ymd) == DaysFromCivil(ymd[1], ymd[2], ymd[3])

\* moment#day(): 0 = Sunday .. 6 = Saturday
MomentDay(z) == (z + 4) % 7
\* moment#date(): day of the month
MomentDate(z) == FormatDate(z)[3]
\* moment#dayOfYear()
MomentDayOfYear(z) == z - DaysFromCivil(FormatDate(z)[1], 1, 1) + 1

\* PostgreSQL DATE_TRUNC(noun, date); 'week' is the ISO week, Monday first
DATE_TRUNC(noun, z) ==
    CASE noun = "day"   -> z
      [] noun = "week"  -> z - ((MomentDay(z) + 6) % 7)
      [] noun = "month" -> DaysFromCivil(FormatDate(z)[1], FormatDate(z)[2], 1)
      [] noun = "year"  -> DaysFromCivil(FormatDate(z)[1], 1, 1)

\* moment-timezone, America/Chicago: hours behind UTC of a wall-clock time
\* and of a UTC instant, both <<day, hour>>.  Daylight time (5 hours) ends
\* on 1999-10-31 at 2:00 wall clock, 7:00 UTC; standard time is 6 hours.
\* (The model's dates lie between 1999-06-01 and the spring of 2000.)
ChicagoOffsetOfLocal(t) ==
    IF t[1] < DaysFromCivil(1999, 10, 31) \/ (t[1] = DaysFromCivil(1999, 10, 31) /\ t[2] < 2)
    THEN 5 ELSE 6
ChicagoOffsetOfUtc(t) ==
    IF t[1] < DaysFromCivil(1999, 10, 31) \/ (t[1] = DaysFromCivil(1999, 10, 31) /\ t[2] < 7)
    THEN 5 ELSE 6

\* moment.tz(date, "America/Chicago").tz("UTC").format(): the UTC instant
\* of a wall-clock timestamp, as <<'YYYY-MM-DD', hour>>
postDateToUtc(t) ==
    LET hours == t[2] + ChicagoOffsetOfLocal(t)
    IN  <<FormatDate(t[1] + hours \div 24), hours % 24>>

\* moment.tz(isoString, "America/Chicago"): the instant of the ISO string
\* shown on the Chicago wall clock, as <<day, hour>>
momentTzChicago(iso) ==
    LET utc == <<ParseDate(iso[1]), iso[2]>>
        hours == (utc[2] + 24) - ChicagoOffsetOfUtc(utc)
    IN  <<(utc[1] - 1) + hours \div 24, hours % 24>>

\* moment#startOf(noun) of a day; a week starts on Sunday (locale en)
startOf(noun, z) ==
    CASE noun = "day"   -> z
      [] noun = "week"  -> z - MomentDay(z)
      [] noun = "month" -> DaysFromCivil(FormatDate(z)[1], FormatDate(z)[2], 1)
      [] noun = "year"  -> DaysFromCivil(FormatDate(z)[1], 1, 1)

\* const firstDay = moment("1999-06-01")
firstDay == DaysFromCivil(1999, 6, 1)

PERIODS == <<<<"day", "daily">>, <<"week", "weekly">>,
             <<"month", "monthly">>, <<"year", "yearly">>>>

MIN_POST_ID == 0

(***************************************************************************)
(* The post table.  author_c is the opaque author key of the source; the   *)
(* display name of author key k is Names[k].                               *)
(***************************************************************************)
Names == <<
    <<"B","o","b">>,
    <<"b","o","b","9","9">>,
    <<"9","9">>,
    <<"a">>,
    <<"b",".","o",".","b">>,
    <<"A","b","c","d","e","f","g","h","i","j","K","L">>,
    <<"a","b","c","d","e","f","g","h","i","j","X","Y">> >>

AuthorKeys == DOMAIN Names

\* a post row; post.date is a timestamp without zone (America/Chicago wall
\* clock), kept as its day number `date` and its hour of the day `hour`
PostAt(a, d, h, c) ==
    [author |-> Names[a], author_c |-> a, date |-> d, hour |-> h, category |-> c]
Post(a, d, c) == PostAt(a, d, 12, c)

\* WHERE id > $1 with $1 = MIN_POST_ID: the ids of the selected posts
SelectedIds(table) == {id \in DOMAIN table : id > MIN_POST_ID}

SetMin(S) == CHOOSE x \in S : \A y \in S : x <= y
\* SQL MIN over timestamps <<day, hour>>
MinTimestamp(S) ==
    CHOOSE x \in S : \A y \in S : x[1] < y[1] \/ (x[1] = y[1] /\ x[2] <= y[2])
SetMax(S) == CHOOSE x \in S : \A y \in S : y <= x

\* lexicographic order on integer tuples of one length
RECURSIVE LexLess(_, _)
LexLess(a, b) ==
    /\ a # <<>>
    /\ \/ Head(a) < Head(b)
       \/ Head(a) = Head(b) /\ LexLess(Tail(a), Tail(b))

\* ORDER BY: the rows of a set of <<key, row>> pairs in ascending key order
OrderBy(S) ==
    [k \in 1..Cardinality(S) |->
        (CHOOSE r \in S : Cardinality({q \in S : LexLess(q[1], r[1])}) = k - 1)[2]]

(***************************************************************************)
(* CSV files.  A value handed to quoteCsvValue is tagged with what         *)
(* Number.isInteger and toString see: an integer, a string kept as its     *)
(* characters, or a string without quote characters kept whole.            *)
(***************************************************************************)
IntVal(n) == [t |-> "int", v |-> n]
CharsVal(s) == [t |-> "chars", v |-> s]
TextVal(x) == [t |-> "text", v |-> x]

\* String.prototype.replace('"', '""'): a string pattern replaces the first
\* occurrence only
RECURSIVE ReplaceFirstQuote(_)
ReplaceFirstQuote(s) ==
    IF s = <<>> THEN <<>>
    ELSE IF Head(s) = "\"" THEN <<"\"", "\"">> \o Tail(s)
    ELSE <<Head(s)>> \o ReplaceFirstQuote(Tail(s))

quoteCsvValue(value) ==
    IF value.t = "int" THEN [quoted |-> FALSE, text |-> value.v]
    ELSE IF value.t = "chars"
         THEN [quoted |-> TRUE, text |-> ReplaceFirstQuote(value.v)]
         ELSE [quoted |-> TRUE, text |-> value.v]

\* the sequences of n distinct elements of S
InjectiveSeqs(S, n) ==
    {s \in [1..n -> S] : \A i, j \in 1..n : i # j => s[i] # s[j]}

\* a filename of the data directory: `${base}.csv`, `${base}${user}.csv` or
\* `${base}${YYYYMMDD}.csv`, base being the literal parts of the name
FileName(base) == [base |-> base, user |-> <<>>, ymd |-> <<>>]
UserFileName(base, userId) == [base |-> base, user |-> userId, ymd |-> <<>>]
DateFileName(base, ymd) == [base |-> base, user |-> <<>>, ymd |-> ymd]

\* writeCsvFile: the header line and one line per row, each field quoted by
\* quoteCsvValue; replaces the file if it exists
writeCsvFile(dir, filename, rows, cols) ==
    LET text == [header |-> cols,
                 lines |-> [k \in DOMAIN rows |->
                              [c \in DOMAIN rows[k] |-> quoteCsvValue(rows[k][c])]]]
    IN  [f \in DOMAIN dir \cup {filename} |->
            IF f = filename THEN text ELSE dir[f]]

(***************************************************************************)
(* buildUsersFile: users.csv, users_info.csv and the author_c -> id map.   *)
(***************************************************************************)
isAlpha(str) == str \in Range(UpperChars) \cup Range(LowerChars)

\* the loop of getPrefix without the length test
RECURSIVE getPrefixLoopAnyLength(_, _)
getPrefixLoopAnyLength(username, prefix) ==
    IF username = <<>> THEN prefix
    ELSE getPrefixLoopAnyLength(Tail(username),
            IF isAlpha(Head(username))
            THEN Append(prefix, toLowerCase(Head(username)))
            ELSE prefix)

RECURSIVE getPrefixLoop(_, _)
getPrefixLoop(username, prefix) ==
    IF username = <<>> THEN prefix
    ELSE getPrefixLoop(Tail(username),
            IF Len(prefix) < 10 /\ isAlpha(Head(username))
            THEN Append(prefix, toLowerCase(Head(username)))
            ELSE prefix)

\* getPrefix without the fallback for names with no alphabetic character
getPrefixNoFallback(username) == getPrefixLoop(username, <<>>)

getPrefix(username) ==
    LET prefix == getPrefixLoop(username, <<>>)
    IN  IF prefix = <<>> THEN <<"a">> ELSE prefix

\* the author query with ORDER BY author_c alone
UsersQueryByKey(table) ==
    LET ids(a) == {id \in SelectedIds(table) : table[id].author_c = a}
        row(a) == [username        |-> table[SetMin(ids(a))].author,
                   author_c        |-> a,
                   first_post_id   |-> SetMin(ids(a)),
                   first_post_date |-> MinTimestamp({<<table[id].date, table[id].hour>> :
                                                        id \in ids(a)}),
                   post_count      |-> Cardinality(ids(a)),
                   user_id         |-> <<>>]
        rows == {row(table[id].author_c) : id \in SelectedIds(table)}
    IN  OrderBy({<<<<r.author_c>>, r>> : r \in rows})

\* the author query: one row per author_c, ORDER BY MIN(id), author_c
UsersQuery(table) ==
    LET ids(a) == {id \in SelectedIds(table) : table[id].author_c = a}
        row(a) == [username        |-> table[SetMin(ids(a))].author,
                   author_c        |-> a,
                   first_post_id   |-> SetMin(ids(a)),
                   first_post_date |-> MinTimestamp({<<table[id].date, table[id].hour>> :
                                                        id \in ids(a)}),
                   post_count      |-> Cardinality(ids(a)),
                   user_id         |-> <<>>]
        rows == {row(table[id].author_c) : id \in SelectedIds(table)}
    IN  OrderBy({<<<<r.first_post_id, r.author_c>>, r>> : r \in rows})

\* the suffix search with `if` in place of `while`
FindUserIdOnce(prefix, suffix, userId, seenIds) ==
    IF userId \in seenIds THEN prefix \o NumberToString(suffix) ELSE userId

\* var userId = prefix; while (seen.containsKey(userId)) { ... }
RECURSIVE FindUserId(_, _, _, _)
FindUserId(prefix, suffix, userId, seenIds) ==
    IF userId \in seenIds
    THEN FindUserId(prefix, suffix + 1, prefix \o NumberToString(suffix), seenIds)
    ELSE userId

AssignUserId(username, seenIds) == FindUserId(getPrefix(username), 2, getPrefix(username), seenIds)

UsersCsvRows(rows) ==
    [k \in DOMAIN rows |-> <<CharsVal(rows[k].user_id), CharsVal(rows[k].username)>>]

\* first_post_date is written as the UTC instant of the post date
\* (postDateToUtc), an ISO string kept as <<'YYYY-MM-DD', hour>>
UsersInfoCsvRows(rows) ==
    [k \in DOMAIN rows |->
        <<CharsVal(rows[k].user_id), CharsVal(rows[k].username),
          IntVal(rows[k].first_post_id), TextVal(postDateToUtc(rows[k].first_post_date)),
          IntVal(rows[k].post_count)>>]

UsersQueryStep ==
    /\ pc = "buildUsersFile"
    /\ rs' = UsersQuery(posts)
    /\ usersIdx' = 0
    /\ pc' = "buildUsersFile.forEach"
    /\ UNCHANGED <<currentPeriods, cursor, runs, posts, today, seen, userIdMap, periodIdx, dataDir, filenames,
                   remote, uploadList, uploadIdx, exitCode, allPeriods>>

\* one iteration of rs.forEach in which a new author of a taken prefix gets
\* the bare prefix and the author that had it gets the suffixed id
UsersForEachNewestFirst ==
    /\ pc = "buildUsersFile.forEach"
    /\ usersIdx < Len(rs)
    /\ LET x == rs[usersIdx + 1]
           prefix == getPrefix(x.username)
           userId == AssignUserId(x.username, DOMAIN seen)
           moved(id) == IF id = prefix /\ userId # prefix THEN userId ELSE id
       IN  /\ seen' = [id \in DOMAIN seen \cup {userId} |->
                          IF id = prefix THEN x.username
                          ELSE IF id = userId THEN seen[prefix] ELSE seen[id]]
           /\ userIdMap' = [a \in DOMAIN userIdMap \cup {x.author_c} |->
                          IF a = x.author_c THEN prefix ELSE moved(userIdMap[a])]
           /\ rs' = [k \in DOMAIN rs |->
                        IF k = usersIdx + 1 THEN [rs[k] EXCEPT !.user_id = prefix]
                        ELSE [rs[k] EXCEPT !.user_id = moved(@)]]
    /\ usersIdx' = usersIdx + 1
    /\ UNCHANGED <<currentPeriods, cursor, runs, posts, today, pc, periodIdx, dataDir, filenames, remote,
                   uploadList, uploadIdx, exitCode, allPeriods>>

\* one iteration of rs.forEach
UsersForEach ==
    /\ pc = "buildUsersFile.forEach"
    /\ usersIdx < Len(rs)
    /\ LET x == rs[usersIdx + 1]
           userId == AssignUserId(x.username, DOMAIN seen)
       IN  /\ seen' = [id \in DOMAIN seen \cup {userId} |->
                          IF id = userId THEN x.username ELSE seen[id]]
           /\ userIdMap' = [a \in DOMAIN userIdMap \cup {x.author_c} |->
                          IF a = x.author_c THEN userId ELSE userIdMap[a]]
           /\ rs' = [rs EXCEPT ![usersIdx + 1].user_id = userId]
    /\ usersIdx' = usersIdx + 1
    /\ UNCHANGED <<currentPeriods, cursor, runs, posts, today, pc, periodIdx, dataDir, filenames, remote,
                   uploadList, uploadIdx, exitCode, allPeriods>>

\* the writes of buildUsersFile started while rs.forEach is at any row
UsersWriteStreaming ==
    /\ pc = "buildUsersFile.forEach"
    /\ usersIdx <= Len(rs)
    /\ dataDir' = writeCsvFile(
                    writeCsvFile(dataDir, FileName(<<"users">>), UsersCsvRows(rs),
                                 <<"user_id", "username">>),
                    FileName(<<"users_info">>), UsersInfoCsvRows(rs),
                    <<"user_id", "username", "first_post_id", "first_post_date",
                      "post_count">>)
    /\ pc' = "buildPostCountsFile"
    /\ periodIdx' = 1
    /\ UNCHANGED <<currentPeriods, cursor, runs, posts, today, rs, usersIdx, seen, userIdMap, filenames, remote,
                   uploadList, uploadIdx, exitCode, allPeriods>>

UsersWrite ==
    /\ pc = "buildUsersFile.forEach"
    /\ usersIdx = Len(rs)
    /\ dataDir' = writeCsvFile(
                    writeCsvFile(dataDir, FileName(<<"users">>), UsersCsvRows(rs),
                                 <<"user_id", "username">>),
                    FileName(<<"users_info">>), UsersInfoCsvRows(rs),
                    <<"user_id", "username", "first_post_id", "first_post_date",
                      "post_count">>)
    /\ pc' = "buildPostCountsFile"
    /\ periodIdx' = 1
    /\ UNCHANGED <<currentPeriods, cursor, runs, posts, today, rs, usersIdx, seen, userIdMap, filenames, remote,
                   uploadList, uploadIdx, exitCode, allPeriods>>

(***************************************************************************)
(* Category tallies.                                                       *)
(***************************************************************************)
ZeroCounts ==
    [total_post_count |-> 0, ontopic_post_count |-> 0, nws_post_count |-> 0,
     stupid_post_count |-> 0, political_post_count |-> 0,
     tangent_post_count |-> 0, informative_post_count |-> 0]

\* updatePostCounts with a default case that counts the row into the total
updatePostCountsLenient(x, currentRow) ==
    LET count == x.post_count
        total == [currentRow EXCEPT !.total_post_count = @ + count]
    IN  [thrown |-> FALSE,
         row |-> CASE x.category = 1 -> [total EXCEPT !.ontopic_post_count = @ + count]
                   [] x.category = 2 -> [total EXCEPT !.nws_post_count = @ + count]
                   [] x.category = 3 -> [total EXCEPT !.stupid_post_count = @ + count]
                   [] x.category = 4 -> [total EXCEPT !.political_post_count = @ + count]
                   [] x.category = 5 -> [total EXCEPT !.tangent_post_count = @ + count]
                   [] x.category = 6 -> [total EXCEPT !.informative_post_count = @ + count]
                   [] OTHER -> total]

\* updatePostCounts with a default case that drops the row
updatePostCountsSkip(x, currentRow) ==
    LET count == x.post_count
        total == [currentRow EXCEPT !.total_post_count = @ + count]
    IN  [thrown |-> FALSE,
         row |-> CASE x.category = 1 -> [total EXCEPT !.ontopic_post_count = @ + count]
                   [] x.category = 2 -> [total EXCEPT !.nws_post_count = @ + count]
                   [] x.category = 3 -> [total EXCEPT !.stupid_post_count = @ + count]
                   [] x.category = 4 -> [total EXCEPT !.political_post_count = @ + count]
                   [] x.category = 5 -> [total EXCEPT !.tangent_post_count = @ + count]
                   [] x.category = 6 -> [total EXCEPT !.informative_post_count = @ + count]
                   [] OTHER -> currentRow]

\* updatePostCounts: the row after the switch, or thrown for the default case
updatePostCounts(x, currentRow) ==
    LET count == x.post_count
        total == [currentRow EXCEPT !.total_post_count = @ + count]
    IN  CASE x.category = 1 ->
               [thrown |-> FALSE, row |-> [total EXCEPT !.ontopic_post_count = @ + count]]
          [] x.category = 2 ->
               [thrown |-> FALSE, row |-> [total EXCEPT !.nws_post_count = @ + count]]
          [] x.category = 3 ->
               [thrown |-> FALSE, row |-> [total EXCEPT !.stupid_post_count = @ + count]]
          [] x.category = 4 ->
               [thrown |-> FALSE, row |-> [total EXCEPT !.political_post_count = @ + count]]
          [] x.category = 5 ->
               [thrown |-> FALSE, row |-> [total EXCEPT !.tangent_post_count = @ + count]]
          [] x.category = 6 ->
               [thrown |-> FALSE, row |-> [total EXCEPT !.informative_post_count = @ + count]]
          [] OTHER ->
               [thrown |-> TRUE, row |-> currentRow]

CountCols ==
    <<"total_post_count", "ontopic_post_count", "nws_post_count", "stupid_post_count",
      "political_post_count", "tangent_post_count", "informative_post_count">>

CountVals(r) ==
    <<IntVal(r.total_post_count), IntVal(r.ontopic_post_count), IntVal(r.nws_post_count),
      IntVal(r.stupid_post_count), IntVal(r.political_post_count),
      IntVal(r.tangent_post_count), IntVal(r.informative_post_count)>>

\* the value of a field that an object does not have
Undefined == <<"undefined">>

\* buildPostCountsFile: GROUP BY DATE_TRUNC(noun, date), category
PostCountsQuery(noun, table) ==
    LET key(id) == <<DATE_TRUNC(noun, table[id].date), table[id].category>>
        row(g) == [date       |-> FormatDate(g[1]),
                   category   |-> g[2],
                   post_count |-> Cardinality({id \in SelectedIds(table) : key(id) = g})]
    IN  OrderBy({<<key(id), row(key(id))>> : id \in SelectedIds(table)})

\* buildUserPostCountsFiles: GROUP BY author_c, DATE_TRUNC(noun, date), category
UserPostCountsQuery(noun, table) ==
    LET key(id) == <<table[id].author_c, DATE_TRUNC(noun, table[id].date),
                     table[id].category>>
        row(g) == [author_c   |-> g[1],
                   date       |-> FormatDate(g[2]),
                   category   |-> g[3],
                   post_count |-> Cardinality({id \in SelectedIds(table) : key(id) = g})]
    IN  OrderBy({<<key(id), row(key(id))>> : id \in SelectedIds(table)})

\* buildPeriodUserPostCountsFiles: weeks are moved to start on the day
\* before the ISO week
dateTruncExpr(noun, z) ==
    IF noun = "week" THEN DATE_TRUNC(noun, z + 1) - 1 ELSE DATE_TRUNC(noun, z)

\* buildPeriodUserPostCountsFiles: GROUP BY dateTruncExpr, author_c, category
PeriodUserPostCountsQuery(noun, table) ==
    LET key(id) == <<dateTruncExpr(noun, table[id].date), table[id].author_c,
                     table[id].category>>
        row(g) == [author_c   |-> g[2],
                   date       |-> FormatDate(g[1]),
                   category   |-> g[3],
                   post_count |-> Cardinality({id \in SelectedIds(table) : key(id) = g})]
    IN  OrderBy({<<key(id), row(key(id))>> : id \in SelectedIds(table)})

\* rs.forEach of buildPostCountsFile; the current row is the last row
\* pushed, or { date: "" } before the first push
RECURSIVE PostCountsForEach(_, _, _)
PostCountsForEach(queryRows, k, acc) ==
    IF k > Len(queryRows) \/ acc.thrown THEN acc
    ELSE LET x == queryRows[k]
             currentRow == IF acc.rows = <<>> THEN [date |-> <<>>]
                           ELSE acc.rows[Len(acc.rows)]
             pushed == IF x.date # currentRow.date
                       THEN Append(acc.rows, [date |-> x.date] @@ ZeroCounts)
                       ELSE acc.rows
             upd == updatePostCounts(x, pushed[Len(pushed)])
         IN  PostCountsForEach(queryRows, k + 1,
                [rows |-> IF upd.thrown THEN pushed
                          ELSE [pushed EXCEPT ![Len(pushed)] = upd.row],
                 thrown |-> upd.thrown])

\* rs.forEach of buildUserPostCountsFiles and buildPeriodUserPostCountsFiles;
\* the current row is the last row pushed, or { userId: "", date: "" }
\* before the first push.  A pushed row has the fields date and user_id
\* and no field userId.
RECURSIVE UserCountsForEach(_, _, _, _)
UserCountsForEach(queryRows, k, acc, idMap) ==
    IF k > Len(queryRows) \/ acc.thrown THEN acc
    ELSE LET x == queryRows[k]
             userId == idMap[x.author_c]
             currentRow == IF acc.rows = <<>> THEN [userId |-> <<>>, date |-> <<>>]
                           ELSE acc.rows[Len(acc.rows)]
             pushed == IF userId # currentRow.userId \/ x.date # currentRow.date
                       THEN Append(acc.rows,
                              [date |-> x.date, user_id |-> userId, userId |-> Undefined]
                                 @@ ZeroCounts)
                       ELSE acc.rows
             upd == updatePostCounts(x, pushed[Len(pushed)])
         IN  UserCountsForEach(queryRows, k + 1,
                [rows |-> IF upd.thrown THEN pushed
                          ELSE [pushed EXCEPT ![Len(pushed)] = upd.row],
                 thrown |-> upd.thrown],
                idMap)

NoRows == [rows |-> <<>>, thrown |-> FALSE]

\* _.keys(_.groupBy(rows, key)): the distinct keys in order of appearance
RECURSIVE GroupKeys(_)
GroupKeys(keys) ==
    IF keys = <<>> THEN <<>>
    ELSE LET front == GroupKeys(SubSeq(keys, 1, Len(keys) - 1))
             last  == keys[Len(keys)]
         IN  IF last \in Range(front) THEN front ELSE Append(front, last)

PostCountsCsvRows(noun, rows) ==
    [k \in DOMAIN rows |->
        <<TextVal(noun), TextVal(rows[k].date)>> \o CountVals(rows[k])]

UserPostCountsCsvRows(noun, rows) ==
    [k \in DOMAIN rows |->
        <<TextVal(noun), TextVal(rows[k].date), CharsVal(rows[k].user_id)>>
            \o CountVals(rows[k])]

\* the throw of updatePostCounts leaves go(): console.error, process.exit(1)
Abort ==
    /\ pc' = "failed"
    /\ exitCode' = 1

\* (daily|weekly|monthly|yearly)_post_counts.csv, one granularity
BuildPostCountsFile ==
    /\ pc = "buildPostCountsFile"
    /\ LET periodNoun == PERIODS[periodIdx][1]
           periodAdjective == PERIODS[periodIdx][2]
           done == PostCountsForEach(PostCountsQuery(periodNoun, posts), 1, NoRows)
       IN  IF done.thrown
           THEN Abort /\ UNCHANGED <<currentPeriods, cursor, runs, dataDir, periodIdx>>
           ELSE /\ dataDir' = writeCsvFile(dataDir,
                                FileName(<<periodAdjective, "_post_counts">>),
                                PostCountsCsvRows(periodNoun, done.rows),
                                <<"period", "date">> \o CountCols)
                /\ exitCode' = exitCode
                /\ IF periodIdx < Len(PERIODS)
                   THEN periodIdx' = periodIdx + 1 /\ pc' = pc
                   ELSE periodIdx' = 1 /\ pc' = "buildUserPostCountsFiles"
    /\ UNCHANGED <<currentPeriods, cursor, runs, posts, today, rs, usersIdx, seen, userIdMap, filenames, remote,
                   uploadList, uploadIdx, allPeriods>>

\* the files of one granularity of buildUserPostCountsFiles
RECURSIVE WriteUserFiles(_, _, _, _, _)
WriteUserFiles(dir, periodNoun, periodAdjective, rows, userIds) ==
    IF userIds = <<>> THEN dir
    ELSE LET userId == Head(userIds)
             userRows == SelectSeq(rows, LAMBDA r : r.user_id = userId)
         IN  WriteUserFiles(
                writeCsvFile(dir,
                    UserFileName(<<periodAdjective, "_post_counts_for_user_">>, userId),
                    UserPostCountsCsvRows(periodNoun, userRows),
                    <<"period", "date", "user_id">> \o CountCols),
                periodNoun, periodAdjective, rows, Tail(userIds))

\* (daily|weekly|monthly|yearly)_post_counts_for_user_(user id).csv
BuildUserPostCountsFiles ==
    /\ pc = "buildUserPostCountsFiles"
    /\ LET periodNoun == PERIODS[periodIdx][1]
           periodAdjective == PERIODS[periodIdx][2]
           done == UserCountsForEach(UserPostCountsQuery(periodNoun, posts), 1,
                                     NoRows, userIdMap)
           userIds == GroupKeys([k \in DOMAIN done.rows |-> done.rows[k].user_id])
       IN  IF done.thrown
           THEN Abort /\ UNCHANGED <<currentPeriods, cursor, runs, dataDir, periodIdx>>
           ELSE /\ dataDir' = WriteUserFiles(dataDir, periodNoun, periodAdjective,
                                             done.rows, userIds)
                /\ exitCode' = exitCode
                /\ IF periodIdx < Len(PERIODS)
                   THEN periodIdx' = periodIdx + 1 /\ pc' = pc
                   ELSE periodIdx' = 1 /\ pc' = "buildPeriodUserPostCountsFiles"
    /\ UNCHANGED <<currentPeriods, cursor, runs, posts, today, rs, usersIdx, seen, userIdMap, filenames, remote,
                   uploadList, uploadIdx, allPeriods>>

ScoreboardCols == <<"period", "date", "user_id">> \o CountCols

\* `post_counts_by_user_for_${periodNoun}_${m.format("YYYYMMDD")}.csv`
ScoreboardFileName(periodNoun, ymd) ==
    DateFileName(<<"post_counts_by_user_for_", periodNoun, "_">>, ymd)

\* the files of one granularity of buildPeriodUserPostCountsFiles
RECURSIVE WriteDateFiles(_, _, _, _)
WriteDateFiles(dir, periodNoun, rows, dates) ==
    IF dates = <<>> THEN dir
    ELSE LET date == Head(dates)
             m == ParseDate(date)
             dateRows == SelectSeq(rows, LAMBDA r : r.date = date)
         IN  WriteDateFiles(
                writeCsvFile(dir, ScoreboardFileName(periodNoun, FormatDate(m)),
                    UserPostCountsCsvRows(periodNoun, dateRows), ScoreboardCols),
                periodNoun, rows, Tail(dates))

\* post_counts_by_user_for_(day|week|month|year)_(YYYYMMDD).csv with rows
BuildPeriodUserPostCountsFiles ==
    /\ pc = "buildPeriodUserPostCountsFiles"
    /\ LET periodNoun == PERIODS[periodIdx][1]
           done == UserCountsForEach(PeriodUserPostCountsQuery(periodNoun, posts), 1,
                                     NoRows, userIdMap)
           dates == GroupKeys([k \in DOMAIN done.rows |-> done.rows[k].date])
       IN  IF done.thrown
           THEN Abort /\ UNCHANGED <<currentPeriods, cursor, runs, dataDir, periodIdx, filenames>>
           ELSE /\ dataDir' = WriteDateFiles(dataDir, periodNoun, done.rows, dates)
                /\ filenames' = filenames \cup
                        {ScoreboardFileName(periodNoun, FormatDate(ParseDate(d))) :
                            d \in Range(dates)}
                /\ exitCode' = exitCode
                /\ IF periodIdx < Len(PERIODS)
                   THEN periodIdx' = periodIdx + 1 /\ pc' = pc
                   ELSE periodIdx' = 1 /\ pc' = "buildPeriodUserPostCountsFiles.blank"
    /\ UNCHANGED <<currentPeriods, cursor, runs, posts, today, rs, usersIdx, seen, userIdMap, remote,
                   uploadList, uploadIdx, allPeriods>>

\* getAllPeriods: the entries pushed for one day of the loop
PeriodsOfDay(date) ==
    <<[noun |-> "day", filenameSuffix |-> <<"day", FormatDate(date)>>,
       date |-> FormatDate(date)]>>
    \o (IF MomentDay(date) = 0
        THEN <<[noun |-> "week", filenameSuffix |-> <<"week", FormatDate(date)>>,
                date |-> FormatDate(date)]>>
        ELSE <<>>)
    \o (IF MomentDate(date) = 1
        THEN <<[noun |-> "month", filenameSuffix |-> <<"month", FormatDate(date)>>,
                date |-> FormatDate(date)]>>
        ELSE <<>>)
    \o (IF MomentDayOfYear(date) = 1
        THEN <<[noun |-> "year", filenameSuffix |-> <<"year", FormatDate(date)>>,
                date |-> FormatDate(date)]>>
        ELSE <<>>)

\* the entries pushed by the iterations i = lo .. hi of the for loop, the
\* date of iteration i being firstDay + i (split in halves to keep the
\* evaluation shallow)
RECURSIVE getAllPeriodsLoop(_, _)
getAllPeriodsLoop(lo, hi) ==
    IF lo > hi THEN <<>>
    ELSE IF lo = hi THEN PeriodsOfDay(firstDay + lo)
    ELSE getAllPeriodsLoop(lo, (lo + hi) \div 2)
            \o getAllPeriodsLoop((lo + hi) \div 2 + 1, hi)

\* getAllPeriods with lastDay the given day: iterations 0 .. numDays - 1
getAllPeriods(lastDay) ==
    LET numDays == (lastDay - firstDay) + 1
    IN  getAllPeriodsLoop(0, numDays - 1)

\* `post_counts_by_user_for_${x.filenameSuffix}.csv`
BlankFileName(x) == ScoreboardFileName(x.filenameSuffix[1], x.filenameSuffix[2])

\* the blank-file pass written for the day periods only
WriteBlankDayFiles(dir, periods, i, written) ==
    LET blank == {BlankFileName(periods[k]) :
                    k \in {n \in i..Len(periods) : periods[n].noun = "day"}} \ written
    IN  [f \in DOMAIN dir \cup blank |->
            IF f \in blank
            THEN writeCsvFile(<<>>, f, <<>>, ScoreboardCols)[f]
            ELSE dir[f]]

\* for (var i = 0; i < allPeriods.length; i++): a blank file for every
\* period from index i on whose filename the first pass did not write
WriteBlankFiles(dir, periods, i, written) ==
    LET blank == {BlankFileName(periods[k]) : k \in i..Len(periods)} \ written
    IN  [f \in DOMAIN dir \cup blank |->
            IF f \in blank
            THEN writeCsvFile(<<>>, f, <<>>, ScoreboardCols)[f]
            ELSE dir[f]]

\* the blank files for the periods that had no posts
BuildBlankPeriodFiles ==
    /\ pc = "buildPeriodUserPostCountsFiles.blank"
    /\ allPeriods' = getAllPeriods(today)
    /\ dataDir' = WriteBlankFiles(dataDir, getAllPeriods(today), 1, filenames)
    /\ pc' = "buildPosterCountFiles"
    /\ UNCHANGED <<currentPeriods, cursor, runs, posts, today, rs, usersIdx, seen, userIdMap, periodIdx, filenames,
                   remote, uploadList, uploadIdx, exitCode>>

(***************************************************************************)
(* buildFilesFile and uploadFiles.  A file's bytes are its CSV text; the   *)
(* hex digest of a buffer is the pair of "sha256" and that text, so that   *)
(* two digests are equal exactly when the texts are, and the empty string  *)
(* is <<>>.  An S3 key `data/${f}` is the filename f.                      *)
(***************************************************************************)
FilesCsv == FileName(<<"files">>)
FileHashesCsv == FileName(<<"file_hashes">>)

\* crypto.createHash("sha256").update(buffer).digest("hex")
sha256(buffer) == <<"sha256", buffer>>

\* buffer.length, counted in fields of the text
BufferLength(buffer) == Len(buffer.header) * (Len(buffer.lines) + 1)

\* the rows of buildFilesFile for the paths that glob returned
FileRows(dir, filePaths) ==
    LET kept == SelectSeq(filePaths, LAMBDA f : f # FilesCsv /\ f # FileHashesCsv)
    IN  [k \in DOMAIN kept |->
            [filename |-> kept[k],
             sha256 |-> sha256(dir[kept[k]]),
             size |-> BufferLength(dir[kept[k]])]]

FileHashesCols == <<"filename", "sha256", "size">>

buildFilesFile(dir, filePaths) ==
    LET rows == FileRows(dir, filePaths)
        files == writeCsvFile(dir, FilesCsv,
                    [k \in DOMAIN rows |-> <<TextVal(rows[k].filename)>>],
                    <<"filename">>)
    IN  writeCsvFile(files, FileHashesCsv,
            [k \in DOMAIN rows |-> <<TextVal(rows[k].filename),
                                     TextVal(rows[k].sha256),
                                     IntVal(rows[k].size)>>],
            FileHashesCols)

\* glob(dataDir/*.csv) lists every file of the directory once, here in any
\* order
BuildFilesFile ==
    /\ pc = "buildFilesFile"
    /\ \E filePaths \in InjectiveSeqs(DOMAIN dataDir, Cardinality(DOMAIN dataDir)) :
          dataDir' = buildFilesFile(dataDir, filePaths)
    /\ pc' = "uploadFiles"
    /\ UNCHANGED <<currentPeriods, cursor, runs, posts, today, rs, usersIdx, seen, userIdMap, periodIdx, filenames,
                   allPeriods, remote, uploadList, uploadIdx, exitCode>>

\* babyparse.parse(csv, { header: true }).data: one object per line after
\* the header line, keyed by the header's fields
babyparse(csv) ==
    [k \in DOMAIN csv.lines |->
        [col \in Range(csv.header) |->
            csv.lines[k][CHOOSE c \in DOMAIN csv.header : csv.header[c] = col].text]]

\* oldFileHashDict.lookup(filename, ""): the sha256 of the last row of that
\* filename, "" without one
oldFileHashLookup(oldFileHashes, filename) ==
    LET at == {k \in DOMAIN oldFileHashes : oldFileHashes[k].filename = filename}
    IN  IF at = {} THEN <<>> ELSE oldFileHashes[SetMax(at)].sha256

\* the diff that keeps only the filenames without any remote entry
newFilesToUploadAbsent(oldFileHashes, newFileHashes) ==
    {newFileHashes[k].filename : k \in DOMAIN newFileHashes}
        \ {oldFileHashes[k].filename : k \in DOMAIN oldFileHashes}

\* newFilesToUpload after the forEach: every filename of the new manifest,
\* less those whose old hash === new hash
newFilesToUpload(oldFileHashes, newFileHashes) ==
    {newFileHashes[k].filename : k \in DOMAIN newFileHashes}
        \ {newFileHashes[k].filename : k \in
              {n \in DOMAIN newFileHashes :
                  oldFileHashLookup(oldFileHashes, newFileHashes[n].filename)
                      = newFileHashes[n].sha256}}

\* s3.getObject succeeded: parse both manifests and list the keys of
\* newFilesToUpload (Dictionary.keys(), in any order)
UploadBegin ==
    /\ pc = "uploadFiles"
    /\ FileHashesCsv \in DOMAIN remote
    /\ LET todo == newFilesToUpload(babyparse(remote[FileHashesCsv]),
                                    babyparse(dataDir[FileHashesCsv]))
       IN  uploadList' \in InjectiveSeqs(todo, Cardinality(todo))
    /\ uploadIdx' = 0
    /\ pc' = "uploadFiles.upload"
    /\ UNCHANGED <<currentPeriods, cursor, runs, posts, today, rs, usersIdx, seen, userIdMap, periodIdx, dataDir,
                   filenames, allPeriods, remote, exitCode>>

\* s3.getObject called back with err (no such key, or any S3 error):
\* reject(err), caught by go().catch
GetObjectFail ==
    /\ pc = "uploadFiles"
    /\ Abort
    /\ UNCHANGED <<currentPeriods, cursor, runs, posts, today, rs, usersIdx, seen, userIdMap, periodIdx, dataDir,
                   filenames, allPeriods, remote, uploadList, uploadIdx>>

\* one iteration of the upload loop that stores the two manifests with the
\* file
UploadOneWithManifests ==
    /\ pc = "uploadFiles.upload"
    /\ uploadIdx < Len(uploadList)
    /\ LET filename == uploadList[uploadIdx + 1]
       IN  remote' = [key \in DOMAIN remote \cup {filename, FilesCsv, FileHashesCsv} |->
                        IF key \in {filename, FilesCsv, FileHashesCsv}
                        THEN dataDir[key] ELSE remote[key]]
    /\ uploadIdx' = uploadIdx + 1
    /\ UNCHANGED <<currentPeriods, cursor, runs, posts, today, pc, rs, usersIdx, seen, userIdMap, periodIdx, dataDir,
                   filenames, allPeriods, uploadList, exitCode>>

\* one iteration of the upload loop whose s3.upload succeeded
UploadOne ==
    /\ pc = "uploadFiles.upload"
    /\ uploadIdx < Len(uploadList)
    /\ LET filename == uploadList[uploadIdx + 1]
       IN  remote' = [key \in DOMAIN remote \cup {filename} |->
                        IF key = filename THEN dataDir[filename] ELSE remote[key]]
    /\ uploadIdx' = uploadIdx + 1
    /\ UNCHANGED <<currentPeriods, cursor, runs, posts, today, pc, rs, usersIdx, seen, userIdMap, periodIdx, dataDir,
                   filenames, allPeriods, uploadList, exitCode>>

\* a failed upload that is passed over: the loop goes on with the next file
UploadFailSkips ==
    /\ pc = "uploadFiles.upload"
    /\ uploadIdx < Len(uploadList)
    /\ uploadIdx' = uploadIdx + 1
    /\ UNCHANGED <<currentPeriods, cursor, runs, posts, today, pc, rs, usersIdx, seen, userIdMap, periodIdx,
                   dataDir, filenames, allPeriods, remote, uploadList, exitCode>>

\* one iteration whose s3.upload called back with err: reject(err)
UploadFail ==
    /\ pc = "uploadFiles.upload"
    /\ uploadIdx < Len(uploadList)
    /\ Abort
    /\ UNCHANGED <<currentPeriods, cursor, runs, posts, today, rs, usersIdx, seen, userIdMap, periodIdx, dataDir,
                   filenames, allPeriods, remote, uploadList, uploadIdx>>

\* the loop is over: go() resolves, "Site build successful.", exit(0)
UploadDone ==
    /\ pc = "uploadFiles.upload"
    /\ uploadIdx = Len(uploadList)
    /\ pc' = "done"
    /\ exitCode' = 0
    /\ UNCHANGED <<currentPeriods, cursor, runs, posts, today, rs, usersIdx, seen, userIdMap, periodIdx, dataDir,
                   filenames, allPeriods, remote, uploadList, uploadIdx>>

(***************************************************************************)
(* buildPosterCountFiles, readUsersInfoFile and buildNewPosterCountsFile.  *)
(***************************************************************************)
\* (daily|weekly|monthly|yearly)_poster_counts.csv, one granularity:
\* COUNT(DISTINCT author_c) GROUP BY dateTruncExpr, the rows in any order
\* (the query has no ORDER BY)
BuildPosterCountFiles ==
    /\ pc = "buildPosterCountFiles"
    /\ LET periodNoun == PERIODS[periodIdx][1]
           periodAdjective == PERIODS[periodIdx][2]
           group(id) == dateTruncExpr(periodNoun, posts[id].date)
           groups == {group(id) : id \in SelectedIds(posts)}
           poster_count(g) ==
               Cardinality({posts[id].author_c :
                               id \in {i \in SelectedIds(posts) : group(i) = g}})
       IN  \E order \in InjectiveSeqs(groups, Cardinality(groups)) :
              dataDir' = writeCsvFile(dataDir,
                            FileName(<<periodAdjective, "_poster_counts">>),
                            [k \in DOMAIN order |->
                                <<TextVal(periodNoun), TextVal(FormatDate(order[k])),
                                  IntVal(poster_count(order[k]))>>],
                            <<"period", "date", "poster_count">>)
    /\ IF periodIdx < Len(PERIODS)
       THEN periodIdx' = periodIdx + 1 /\ pc' = pc
       ELSE periodIdx' = 1 /\ pc' = "buildNewPosterCountsFile"
    /\ UNCHANGED <<currentPeriods, cursor, runs, posts, today, rs, usersIdx, seen, userIdMap, filenames,
                   allPeriods, remote, uploadList, uploadIdx, exitCode>>

\* readUsersInfoFile: first post date and post count of every line of
\* users_info.csv
readUsersInfoFile(dir) ==
    LET data == babyparse(dir[FileName(<<"users_info">>)])
    IN  [k \in DOMAIN data |->
            [firstPostDate |-> momentTzChicago(data[k].first_post_date),
             postCount |-> data[k].post_count]]

\* the calls of buildNewPosterCountsFile in go(): minPosts, filenameSuffix
NewPosterSeries == <<<<0, "new_poster_counts">>, <<10, "new_10plus_poster_counts">>>>

\* rows of one granularity: one per entry of that noun in getAllPeriods(),
\* counting the users whose first post date starts the period of that date
NewPosterRows(users, periods, periodNoun) ==
    LET dates == SelectSeq(periods, LAMBDA x : x.noun = periodNoun)
    IN  [k \in DOMAIN dates |->
            [date |-> dates[k].date,
             new_poster_count |->
                Cardinality({u \in DOMAIN users :
                    FormatDate(startOf(periodNoun, users[u].firstPostDate[1]))
                        = dates[k].date})]]

\* the PERIODS loop of buildNewPosterCountsFile from index i on
RECURSIVE WriteNewPosterFiles(_, _, _, _, _)
WriteNewPosterFiles(dir, users, periods, filenameSuffix, i) ==
    IF i > Len(PERIODS) THEN dir
    ELSE LET rows == NewPosterRows(users, periods, PERIODS[i][1])
         IN  WriteNewPosterFiles(
                writeCsvFile(dir, FileName(<<PERIODS[i][2], "_", filenameSuffix>>),
                    [k \in DOMAIN rows |->
                        <<TextVal(PERIODS[i][1]), TextVal(rows[k].date),
                          IntVal(rows[k].new_poster_count)>>],
                    <<"period", "date", "new_poster_count">>),
                users, periods, filenameSuffix, i + 1)

\* users.filter(x => x.postCount >= minPosts)
UsersWithMinPosts(dir, minPosts) ==
    SelectSeq(readUsersInfoFile(dir), LAMBDA x : x.postCount >= minPosts)

buildNewPosterCountsFile(dir, minPosts, filenameSuffix, lastDay) ==
    WriteNewPosterFiles(dir, UsersWithMinPosts(dir, minPosts), getAllPeriods(lastDay),
                        filenameSuffix, 1)

\* buildNewPosterCountsFile(config, 0, "new_poster_counts")
BuildNewPosterCountsFile ==
    /\ pc = "buildNewPosterCountsFile"
    /\ dataDir' = buildNewPosterCountsFile(dataDir, NewPosterSeries[1][1],
                                           NewPosterSeries[1][2], today)
    /\ pc' = "buildNewPosterCountsFile.10plus"
    /\ UNCHANGED <<currentPeriods, cursor, runs, posts, today, rs, usersIdx, seen, userIdMap, periodIdx,
                   filenames, allPeriods, remote, uploadList, uploadIdx, exitCode>>

\* buildNewPosterCountsFile(config, 10, "new_10plus_poster_counts")
BuildNew10PlusPosterCountsFile ==
    /\ pc = "buildNewPosterCountsFile.10plus"
    /\ dataDir' = buildNewPosterCountsFile(dataDir, NewPosterSeries[2][1],
                                           NewPosterSeries[2][2], today)
    /\ pc' = "buildFilesFile"
    /\ UNCHANGED <<currentPeriods, cursor, runs, posts, today, rs, usersIdx, seen, userIdMap, periodIdx,
                   filenames, allPeriods, remote, uploadList, uploadIdx, exitCode>>

\* the program is started again after a run has ended, over the data
\* directory and the bucket as that run left them
RunAgain ==
    /\ pc \in {"done", "failed"}
    /\ Len(runs) + 1 < MaxRuns
    /\ runs' = Append(runs, [exitCode |-> exitCode,
                              listed |-> Range(uploadList),
                              uploaded |-> {uploadList[k] : k \in 1..uploadIdx}])
    /\ pc' = "buildFilesFile"
    /\ uploadList' = <<>>
    /\ uploadIdx' = 0
    /\ exitCode' = -1
    /\ UNCHANGED <<currentPeriods, cursor, posts, today, rs, usersIdx, seen, userIdMap,
                   periodIdx, dataDir,
                   filenames, allPeriods, remote>>

(***************************************************************************)
(* Identity assignment alone, over author lists of up to MaxAuthors        *)
(* authors, one post each, in every order of first post.                   *)
(***************************************************************************)
Blank ==
    /\ pc = "buildUsersFile"
    /\ rs = <<>>
    /\ usersIdx = 0
    /\ seen = <<>>
    /\ userIdMap = <<>>
    /\ periodIdx = 0
    /\ dataDir = <<>>
    /\ filenames = {}
    /\ allPeriods = <<>>
    /\ remote = <<>>
    /\ uploadList = <<>>
    /\ uploadIdx = 0
    /\ exitCode = -1
    /\ runs = <<>>
    /\ currentPeriods = <<>>
    /\ cursor = 0

InitUsers ==
    /\ \E n \in 1..MaxAuthors : \E who \in InjectiveSeqs(AuthorKeys, n) :
          posts = [id \in 1..n |-> Post(who[id], firstDay, 1)]
    /\ today = firstDay
    /\ Blank

NextUsers == UsersQueryStep \/ UsersForEach \/ UsersWrite

SpecUsers == InitUsers /\ [][NextUsers]_vars

(***************************************************************************)
(* getPrefix on one author: display names made of up to MaxLen characters  *)
(* (an upper-case letter, a lower-case letter, a digit) followed by one of *)
(* four tails, so that names have no letter, few letters, or more than 10. *)
(***************************************************************************)
NameChars == {"Q", "b", "9"}
NameHeads == UNION {[1..n -> NameChars] : n \in 0..MaxLen}
NameTails == {<<>>,
              <<"1", "2">>,
              <<"c", "D", "e", "f", "g", "h", "i", "j">>,
              <<"c", "-", "D", "e", "f", "g", "h", " ", "i", "j", "k", "L">>}

InitPrefix ==
    /\ \E head \in NameHeads, tail \in NameTails :
          posts = <<[author |-> head \o tail, author_c |-> 1, date |-> firstDay,
                     hour |-> 12, category |-> 1]>>
    /\ today = firstDay
    /\ Blank

SpecPrefix == InitPrefix /\ [][NextUsers]_vars

(***************************************************************************)
(* The aggregation inputs: the posts of two authors in id order (ids grow  *)
(* with time).  One post of any category code 0..7, or up to MaxPosts      *)
(* posts of the codes 1, 2 and 7.                                          *)
(***************************************************************************)
TallyAuthors == {1, 2}
TallyDays == {firstDay, firstDay + 5, firstDay + 30}
Categories == 0..7
MixedCategories == {1, 2, 7}
TallyToday == firstDay + 33

PostTables(n, categories) ==
    {[id \in 1..n |-> Post(a[id], d[id], c[id])] :
        a \in [1..n -> TallyAuthors],
        d \in {dd \in [1..n -> TallyDays] : \A i, j \in 1..n : i < j => dd[i] <= dd[j]},
        c \in [1..n -> categories]}

InitTally ==
    /\ \/ posts \in PostTables(1, Categories)
       \/ \E n \in 0..MaxPosts : posts \in PostTables(n, MixedCategories)
    /\ today = TallyToday
    /\ Blank

NextTally ==
    \/ UsersQueryStep
    \/ UsersForEach
    \/ UsersWrite
    \/ BuildPostCountsFile
    \/ BuildUserPostCountsFiles
    \/ BuildPeriodUserPostCountsFiles
    \/ BuildBlankPeriodFiles

SpecTally == InitTally /\ [][NextTally]_vars

(***************************************************************************)
(* The calendar inputs: today on any day up to MaxToday days after the     *)
(* epoch start, and no post or one post on a day up to today.              *)
(***************************************************************************)
CalendarDays == {firstDay, firstDay + 5, firstDay + 214}

InitCalendar ==
    /\ today \in firstDay..(firstDay + MaxToday)
    /\ \/ posts = <<>>
       \/ \E d \in CalendarDays : d <= today /\ posts = <<Post(1, d, 1)>>
    /\ Blank

SpecCalendar == InitCalendar /\ [][NextTally]_vars

(***************************************************************************)
(* The poster inputs: up to two authors, each with all of its posts at one *)
(* of three days, early or late in the day, and with one post or as many   *)
(* as the 10plus threshold.                                                *)
(***************************************************************************)
PosterAuthors == {1, 2}
PosterDays == {firstDay, firstDay + 5, firstDay + 214}
PosterHours == {0, 23}
PosterToday == firstDay + 215

PosterTable(authors, day, hour, count) ==
    OrderBy({<<<<day[p[1]], hour[p[1]], p[1], p[2]>>,
               PostAt(p[1], day[p[1]], hour[p[1]], 1)>> :
                p \in {q \in authors \X (1..NewPosterSeries[2][1]) :
                          q[2] <= count[q[1]]}})

InitPosters ==
    /\ \E authors \in SUBSET PosterAuthors :
          \E day \in [authors -> PosterDays], hour \in [authors -> PosterHours],
             count \in [authors -> {1, NewPosterSeries[2][1]}] :
                posts = PosterTable(authors, day, hour, count)
    /\ today = PosterToday
    /\ Blank

NextPosters ==
    \/ NextTally
    \/ BuildPosterCountFiles
    \/ BuildNewPosterCountsFile
    \/ BuildNew10PlusPosterCountsFile

SpecPosters == InitPosters /\ [][NextPosters]_vars

(***************************************************************************)
(* writeCsvFile alone: one row of two values, each an integer or a string  *)
(* of up to MaxLen characters, letters and double quotes.                  *)
(***************************************************************************)
CsvNumbers == {0, 7, 1999}
CsvChars == {"a", "\""}
CsvStrings == UNION {[1..n -> CsvChars] : n \in 0..MaxLen}
CsvValues == {IntVal(n) : n \in CsvNumbers} \cup {CharsVal(s) : s \in CsvStrings}

InitCsv ==
    /\ rs \in {<<row>> : row \in [1..2 -> CsvValues]}
    /\ pc = "writeCsvFile"
    /\ posts = <<>>
    /\ today = firstDay
    /\ usersIdx = 0
    /\ seen = <<>>
    /\ userIdMap = <<>>
    /\ periodIdx = 0
    /\ dataDir = <<>>
    /\ filenames = {}
    /\ allPeriods = <<>>
    /\ remote = <<>>
    /\ uploadList = <<>>
    /\ uploadIdx = 0
    /\ exitCode = -1
    /\ runs = <<>>
    /\ currentPeriods = <<>>
    /\ cursor = 0

\* a call of writeCsvFile with the selected values of the rows
WriteCsvFile ==
    /\ pc = "writeCsvFile"
    /\ dataDir' = writeCsvFile(dataDir, FileName(<<"users">>), rs, <<"user_id", "username">>)
    /\ pc' = "written"
    /\ UNCHANGED <<currentPeriods, cursor, runs, posts, today, rs, usersIdx, seen, userIdMap, periodIdx,
                   filenames, allPeriods, remote, uploadList, uploadIdx, exitCode>>

SpecCsv == InitCsv /\ [][WriteCsvFile]_vars

(***************************************************************************)
(* The publishing inputs: the data directory as the build stages left it   *)
(* (users.csv always, daily_post_counts.csv possibly), each artifact with  *)
(* one of MaxVersions contents, and a bucket that holds no manifest or a   *)
(* manifest, with its objects, of an earlier publication of any of the     *)
(* artifacts and of weekly_post_counts.csv.                                *)
(***************************************************************************)
UsersCsv == FileName(<<"users">>)
LocalArtifacts == {UsersCsv, FileName(<<"daily", "_post_counts">>)}
RemoteArtifacts == LocalArtifacts \cup {FileName(<<"weekly", "_post_counts">>)}

\* the v-th content of an artifact: a text of v lines
ArtifactText(f, v) ==
    writeCsvFile(<<>>, f, [k \in 1..v |-> <<IntVal(k)>>], <<"id">>)[f]

Directories(must, may) ==
    {[f \in S |-> ArtifactText(f, v[f])] :
        S \in {T \in SUBSET (must \cup may) : must \subseteq T},
        v \in [must \cup may -> 1..MaxVersions]}

InitUpload ==
    /\ posts = <<>>
    /\ today = firstDay
    /\ pc = "buildFilesFile"
    /\ rs = <<>>
    /\ usersIdx = 0
    /\ seen = <<>>
    /\ userIdMap = <<>>
    /\ periodIdx = 0
    /\ filenames = {}
    /\ allPeriods = <<>>
    /\ uploadList = <<>>
    /\ uploadIdx = 0
    /\ exitCode = -1
    /\ runs = <<>>
    /\ currentPeriods = <<>>
    /\ cursor = 0
    /\ dataDir \in Directories({UsersCsv}, LocalArtifacts \ {UsersCsv})
    /\ \/ remote = <<>>
       \/ \E published \in Directories({}, RemoteArtifacts) :
             \E filePaths \in InjectiveSeqs(DOMAIN published,
                                            Cardinality(DOMAIN published)) :
                /\ DOMAIN published # {}
                /\ remote = buildFilesFile(published, filePaths)

NextUpload ==
    \/ BuildFilesFile
    \/ GetObjectFail
    \/ UploadBegin
    \/ UploadOne
    \/ UploadFail
    \/ UploadDone

SpecUpload == InitUpload /\ [][NextUpload]_vars

(***************************************************************************)
(* The publishing inputs with a data directory that was used before: the   *)
(* directory is never emptied, so next to the artifacts that the stages of *)
(* this run wrote it can hold what an earlier run left: its files.csv and  *)
(* file_hashes.csv, and the series file of an author whose posts are no    *)
(* longer in the post table, which no stage of this run wrote.             *)
(***************************************************************************)
LeftOverCsv == UserFileName(<<"daily", "_post_counts_for_user_">>, <<"z", "e", "d">>)

EarlierDirectories ==
    {<<>>} \cup UNION {{buildFilesFile(left, filePaths) :
                          filePaths \in InjectiveSeqs(DOMAIN left,
                                                      Cardinality(DOMAIN left))} :
                       left \in Directories({}, {LeftOverCsv})}

InitManifest ==
    /\ posts = <<>>
    /\ today = firstDay
    /\ pc = "buildFilesFile"
    /\ rs = <<>>
    /\ usersIdx = 0
    /\ seen = <<>>
    /\ userIdMap = <<>>
    /\ periodIdx = 0
    /\ filenames = {}
    /\ allPeriods = <<>>
    /\ uploadList = <<>>
    /\ uploadIdx = 0
    /\ exitCode = -1
    /\ runs = <<>>
    /\ currentPeriods = <<>>
    /\ cursor = 0
    /\ \E written \in Directories({UsersCsv}, LocalArtifacts \ {UsersCsv}),
          earlier \in EarlierDirectories :
            dataDir = [f \in DOMAIN written \cup DOMAIN earlier |->
                          IF f \in DOMAIN written THEN written[f] ELSE earlier[f]]
    /\ \/ remote = <<>>
       \/ \E published \in Directories({}, LocalArtifacts) :
             \E filePaths \in InjectiveSeqs(DOMAIN published,
                                            Cardinality(DOMAIN published)) :
                /\ DOMAIN published # {}
                /\ remote = buildFilesFile(published, filePaths)

SpecManifest == InitManifest /\ [][NextUpload]_vars

\* the publishing stages run up to MaxRuns times over one data directory,
\* the bucket holding the manifest of an earlier publication of some of the
\* local artifacts
InitRetry ==
    /\ InitUpload
    /\ FileHashesCsv \in DOMAIN remote
    /\ DOMAIN remote \subseteq LocalArtifacts \cup {FilesCsv, FileHashesCsv}

NextRetry == NextUpload \/ RunAgain

SpecRetry == InitRetry /\ [][NextRetry]_vars

(***************************************************************************)
(* Properties of the identity assignment.                                  *)
(***************************************************************************)
AuthorsOf(table) == {table[id].author_c : id \in SelectedIds(table)}
FirstPostId(table, a) == SetMin({id \in SelectedIds(table) : table[id].author_c = a})
IsLowerAlpha(s) == \A k \in DOMAIN s : s[k] \in Range(LowerChars)
IsDigits(s) == \A k \in DOMAIN s : s[k] \in Range(DigitChars)
\* authors with the prefix of a whose first post is not after a's
SamePrefixUpTo(a) ==
    {b \in AuthorsOf(posts) :
        /\ getPrefix(Names[b]) = getPrefix(Names[a])
        /\ FirstPostId(posts, b) <= FirstPostId(posts, a)}

\* C2: the user ids assigned in one run are pairwise distinct, for any
\* author list: no two authors receive the same user_id (also the user_id
\* column of users.csv has no value twice).
C2_UserIdsDistinct ==
    /\ \A a, b \in DOMAIN userIdMap : a # b => userIdMap[a] # userIdMap[b]
    /\ \A j, k \in 1..usersIdx : j # k => rs[j].user_id # rs[k].user_id

\* three authors of one prefix, and a name without letters, all with ids
C2_Witness ==
    /\ pc = "buildPostCountsFile"
    /\ Cardinality(DOMAIN userIdMap) = 3
    /\ \/ \A a \in DOMAIN userIdMap : getPrefix(Names[a]) = <<"b","o","b">>
       \/ {3, 4} \subseteq DOMAIN userIdMap

\* C3: among the authors whose names yield the same prefix, the one with
\* the smallest first post id receives the unsuffixed prefix and the n-th
\* (n >= 2) receives the prefix followed by the number n.
C3_FirstGetsPrefix ==
    \A a \in DOMAIN userIdMap :
        LET n == Cardinality(SamePrefixUpTo(a))
        IN  userIdMap[a] = IF n = 1 THEN getPrefix(Names[a])
                           ELSE getPrefix(Names[a]) \o NumberToString(n)

\* "Bob" posts before "bob99": "bob" and "bob2" (and a third: "bob3")
C3_Witness ==
    /\ pc = "buildPostCountsFile"
    /\ DOMAIN userIdMap = {1, 2, 5}
    /\ userIdMap[1] = <<"b","o","b">>
    /\ userIdMap[2] = <<"b","o","b","2">>
    /\ userIdMap[5] = <<"b","o","b","3">>
    /\ FirstPostId(posts, 5) = 3

\* C4 as stated: every assigned id is lowercase, alphabetic only, of length
\* at most 10 and non-empty, also for authors that lost a prefix collision.
C4_AllIdsAlphabetic ==
    \A a \in DOMAIN userIdMap :
        /\ IsLowerAlpha(userIdMap[a])
        /\ Len(userIdMap[a]) >= 1
        /\ Len(userIdMap[a]) <= 10

\* C4 amended: every assigned id is non-empty and is a lowercase alphabetic
\* part of 1 to 10 characters, followed by nothing for an author that is
\* the first of its prefix and by a decimal number >= 2 (so by digits, and
\* possibly beyond 10 characters in all) for an author that lost a collision.
C4_IdShape ==
    \A a \in DOMAIN userIdMap :
        \E k \in 1..Len(userIdMap[a]) :
            LET alpha  == SubSeq(userIdMap[a], 1, k)
                suffix == SubSeq(userIdMap[a], k + 1, Len(userIdMap[a]))
            IN  /\ IsLowerAlpha(alpha)
                /\ k <= 10
                /\ IsDigits(suffix)
                /\ suffix = <<>> <=> Cardinality(SamePrefixUpTo(a)) = 1
                /\ suffix # <<>> => suffix[1] # "0" /\ suffix # <<"1">>

\* a collision of two 10-letter prefixes: the loser's id has 11 characters
C4_Witness ==
    /\ pc = "buildPostCountsFile"
    /\ \E a \in DOMAIN userIdMap : Len(userIdMap[a]) = 11
    /\ \E a \in DOMAIN userIdMap : Names[a] = <<"9","9">>

(***************************************************************************)
(* Properties of the tallies.                                              *)
(***************************************************************************)
\* the post-count artifacts written so far
TallyFiles == {f \in DOMAIN dataDir : "total_post_count" \in Range(dataDir[f].header)}
Field(f, line, col) ==
    line[CHOOSE k \in DOMAIN dataDir[f].header : dataDir[f].header[k] = col].text
CategorySum(f, line) ==
    Field(f, line, "ontopic_post_count") + Field(f, line, "nws_post_count")
    + Field(f, line, "stupid_post_count") + Field(f, line, "political_post_count")
    + Field(f, line, "tangent_post_count") + Field(f, line, "informative_post_count")
HasUnknownCategory == \E id \in SelectedIds(posts) : posts[id].category \notin 1..6
GlobalSeriesFile(k) == FileName(<<PERIODS[k][2], "_post_counts">>)

\* C1: in every row written to any post-count artifact (global series,
\* per-author series, per-period scoreboard), for any input rows, also
\* with category codes outside 1..6, total_post_count is the sum of the six
\* category counts of the row.
C1_TotalIsSum ==
    \A f \in TallyFiles : \A k \in DOMAIN dataDir[f].lines :
        Field(f, dataDir[f].lines[k], "total_post_count")
            = CategorySum(f, dataDir[f].lines[k])

\* all three kinds of artifact are written, with a row that sums two
\* categories and a row that counts two posts
C1_Witness ==
    /\ pc = "buildPosterCountFiles"
    /\ \E f \in TallyFiles : f.user # <<>>
    /\ \E f \in TallyFiles : f.ymd # <<>> /\ dataDir[f].lines # <<>>
    /\ \E k \in DOMAIN dataDir[GlobalSeriesFile(1)].lines :
          LET line == dataDir[GlobalSeriesFile(1)].lines[k]
          IN  /\ Field(GlobalSeriesFile(1), line, "ontopic_post_count") = 1
              /\ Field(GlobalSeriesFile(1), line, "nws_post_count") = 1
              /\ Field(GlobalSeriesFile(1), line, "total_post_count") = 2

\* C5: when an input row carries a category code outside 1..6 the run
\* aborts at that row: it never gets past the aggregation of the first
\* series, exits with an error, and no post-count artifact is written, so
\* the row is counted into no tally.
C5_UnknownCategoryAborts ==
    HasUnknownCategory =>
        /\ pc \in {"buildUsersFile", "buildUsersFile.forEach", "buildPostCountsFile",
                   "failed"}
        /\ periodIdx <= 1
        /\ TallyFiles = {}
        /\ pc = "failed" => exitCode = 1

\* a post of a known category on an earlier day, then a post of code 7:
\* the run has failed
C5_Witness ==
    /\ pc = "failed"
    /\ exitCode = 1
    /\ Len(posts) = 2
    /\ posts[1].category = 1
    /\ posts[2].category = 7
    /\ posts[1].date < posts[2].date

\* C6 as stated: every global series has exactly one row for the period of
\* every day between the first and the last event, in ascending period
\* order, all-zero where the period has no event.
C6_GlobalSeriesGapFilled ==
    \A g \in DOMAIN PERIODS :
        GlobalSeriesFile(g) \in DOMAIN dataDir =>
            LET lines == dataDir[GlobalSeriesFile(g)].lines
                start(k) == ParseDate(Field(GlobalSeriesFile(g), lines[k], "date"))
                days == {posts[id].date : id \in SelectedIds(posts)}
            IN  /\ \A j, k \in DOMAIN lines : j < k => start(j) < start(k)
                /\ days # {} =>
                     \A d \in SetMin(days)..SetMax(days) :
                        \E k \in DOMAIN lines :
                            /\ start(k) = DATE_TRUNC(PERIODS[g][1], d)
                            /\ (\A id \in SelectedIds(posts) :
                                    DATE_TRUNC(PERIODS[g][1], posts[id].date) # start(k))
                                => Field(GlobalSeriesFile(g), lines[k],
                                         "total_post_count") = 0

(***************************************************************************)
(* Properties of the calendar and of the scoreboard files.                 *)
(***************************************************************************)
\* the day after the last day of the period of a granularity that starts
\* on the given day
NextPeriodStart(noun, start) ==
    CASE noun = "day"   -> start + 1
      [] noun = "week"  -> start + 7
      [] noun = "month" ->
            LET ymd == FormatDate(start)
            IN  IF ymd[2] = 12 THEN DaysFromCivil(ymd[1] + 1, 1, 1)
                ELSE DaysFromCivil(ymd[1], ymd[2] + 1, 1)
      [] noun = "year"  -> DaysFromCivil(FormatDate(start)[1] + 1, 1, 1)
PeriodHasEvents(noun, start) ==
    \E id \in SelectedIds(posts) :
        start <= posts[id].date /\ posts[id].date < NextPeriodStart(noun, start)
Nouns == {PERIODS[g][1] : g \in DOMAIN PERIODS}

\* C7: after buildPeriodUserPostCountsFiles, for every granularity and
\* every period instance that getAllPeriods enumerates from the epoch start
\* to today, the scoreboard file of the period exists; it is the header
\* row alone when the period has no event.
C7_ScoreboardFilesExist ==
    pc = "buildPosterCountFiles" =>
        \A k \in DOMAIN allPeriods :
            LET f == ScoreboardFileName(allPeriods[k].noun, allPeriods[k].date)
            IN  /\ f \in DOMAIN dataDir
                /\ dataDir[f].header = ScoreboardCols
                /\ ~PeriodHasEvents(allPeriods[k].noun, ParseDate(allPeriods[k].date))
                      => dataDir[f].lines = <<>>

\* a run to 2000-01-02 with one post on a Sunday: periods of all four
\* granularities are enumerated, with and without events
C7_Witness ==
    /\ pc = "buildPosterCountFiles"
    /\ today = firstDay + 215
    /\ Len(posts) = 1
    /\ posts[1].date = firstDay + 5
    /\ {allPeriods[k].noun : k \in DOMAIN allPeriods} = Nouns
    /\ dataDir[ScoreboardFileName("week", <<1999, 6, 6>>)].lines # <<>>
    /\ dataDir[ScoreboardFileName("year", <<2000, 1, 1>>)].lines = <<>>

\* C8 as stated: every week period produced in a run starts on a Monday:
\* the rows of the weekly series, the weekly scoreboard filenames and the
\* week entries of getAllPeriods.
C8_WeeksStartOnMonday ==
    /\ GlobalSeriesFile(2) \in DOMAIN dataDir =>
          \A k \in DOMAIN dataDir[GlobalSeriesFile(2)].lines :
              MomentDay(ParseDate(Field(GlobalSeriesFile(2),
                  dataDir[GlobalSeriesFile(2)].lines[k], "date"))) = 1
    /\ \A f \in DOMAIN dataDir :
          f.base = <<"post_counts_by_user_for_", "week", "_">>
              => MomentDay(ParseDate(f.ymd)) = 1
    /\ \A k \in DOMAIN allPeriods :
          allPeriods[k].noun = "week" => MomentDay(ParseDate(allPeriods[k].date)) = 1

\* C9 as stated: for each granularity the enumerated periods partition
\* [epoch start, today]: every day from 1999-06-01 through today lies in
\* exactly one enumerated period of the granularity.
C9_PeriodsPartitionRange ==
    pc = "buildPosterCountFiles" =>
        \A noun \in Nouns : \A d \in firstDay..today :
            Cardinality({k \in DOMAIN allPeriods :
                /\ allPeriods[k].noun = noun
                /\ ParseDate(allPeriods[k].date) <= d
                /\ d < NextPeriodStart(noun, ParseDate(allPeriods[k].date))}) = 1

(***************************************************************************)
(* C10: the upload set is the diff of the two manifests.                   *)
(***************************************************************************)
\* the sha256 that a file_hashes.csv text records for a filename (the set of
\* them: empty when the filename has no line)
RecordedHashes(csv, filename) ==
    {csv.lines[k][2].text : k \in {n \in DOMAIN csv.lines : csv.lines[n][1].text = filename}}
ListedNames(csv) == {csv.lines[k][1].text : k \in DOMAIN csv.lines}
UploadListed == pc = "uploadFiles.upload" \/ pc = "done"
                    \/ (pc = "failed" /\ uploadList # <<>>)

\* C10: once uploadFiles has listed the files to upload, the list holds,
\* each once, exactly the filenames of the local file_hashes.csv whose
\* sha256 is not the one the remote file_hashes.csv records for the
\* filename (or that the remote one does not list); a file whose two
\* recorded hashes are equal is not in the list.
C10_UploadSetIsManifestDiff ==
    UploadListed =>
        LET new == dataDir[FileHashesCsv]
            old == remote[FileHashesCsv]
        IN  /\ Range(uploadList) =
                  {f \in ListedNames(new) :
                      RecordedHashes(old, f) # RecordedHashes(new, f)}
            /\ \A i, j \in DOMAIN uploadList : uploadList[i] = uploadList[j] => i = j
            /\ \A f \in ListedNames(new) :
                  RecordedHashes(old, f) = RecordedHashes(new, f)
                      => f \notin Range(uploadList)

\* every upload of a run is done; users.csv was published with another
\* content and was uploaded, daily_post_counts.csv was published with the
\* same content and was not listed
C10_Witness ==
    /\ pc = "done"
    /\ uploadIdx = Len(uploadList)
    /\ uploadList = <<UsersCsv>>
    /\ DOMAIN dataDir = LocalArtifacts \cup {FilesCsv, FileHashesCsv}
    /\ RecordedHashes(remote[FileHashesCsv], UsersCsv) # {}
    /\ RecordedHashes(remote[FileHashesCsv], UsersCsv)
          # RecordedHashes(dataDir[FileHashesCsv], UsersCsv)
    /\ RecordedHashes(remote[FileHashesCsv], FileName(<<"daily", "_post_counts">>))
          = RecordedHashes(dataDir[FileHashesCsv], FileName(<<"daily", "_post_counts">>))
    /\ remote[UsersCsv] = dataDir[UsersCsv]

(***************************************************************************)
(* C11 .. C15: the manifest artifacts, repeated runs and failures of the   *)
(* publishing stage.                                                       *)
(***************************************************************************)
\* the run that ended last before this one
LastRun == runs[Len(runs)]
\* the files of the upload list already uploaded / not reached
Uploaded == {uploadList[k] : k \in 1..uploadIdx}
NotUploaded == {uploadList[k] : k \in (uploadIdx + 1)..Len(uploadList)}
StoredAsLocal(f) == f \in DOMAIN remote /\ remote[f] = dataDir[f]

\* C11 as stated: a run whose upload step completed has uploaded files.csv
\* and file_hashes.csv, so the bucket holds both as the data directory does.
C11_ManifestsUploaded ==
    pc = "done" => StoredAsLocal(FilesCsv) /\ StoredAsLocal(FileHashesCsv)

\* C12 as stated: a run that follows a successful run over the unchanged
\* data directory lists no file to upload.
C12_SecondRunUploadsNothing ==
    (runs # <<>> /\ UploadListed) =>
        (LastRun.exitCode = 0 => uploadList = <<>>)

\* C13 as stated: when the bucket has no file_hashes.csv the run does not
\* fail at the fetch, and every filename of the local file_hashes.csv is
\* listed for upload.
C13_FetchMissRecovers ==
    FileHashesCsv \notin DOMAIN remote =>
        /\ ~(pc = "failed" /\ uploadList = <<>>)
        /\ pc \in {"uploadFiles.upload", "done"} =>
              Range(uploadList) = ListedNames(dataDir[FileHashesCsv])

\* C14: a run that failed in the upload loop exits with code 1 and stays
\* failed; the files before the failed one are stored in the bucket as they
\* are in the data directory, the failed one and the ones after it are not;
\* a run that reports success has uploaded every file of its list.
C14_FirstFailureTerminates ==
    /\ [](pc = "failed" /\ uploadList # <<>> =>
            /\ exitCode = 1
            /\ uploadIdx < Len(uploadList)
            /\ \A f \in Uploaded : StoredAsLocal(f)
            /\ \A f \in NotUploaded : ~StoredAsLocal(f))
    /\ [](pc = "done" => exitCode = 0 /\ \A f \in Range(uploadList) : StoredAsLocal(f))
    /\ [][pc = "failed" => pc' = "failed" /\ exitCode' = 1 /\ remote' = remote]_vars

\* the second of two uploads failed: the first file is uploaded, the second
\* is not
C14_Witness ==
    /\ pc = "failed"
    /\ exitCode = 1
    /\ Len(uploadList) = 2
    /\ uploadIdx = 1
    /\ StoredAsLocal(uploadList[1])
    /\ ~StoredAsLocal(uploadList[2])

\* C15 as stated: a run without upload failure that follows a run aborted
\* in the upload loop ends with every file of the local file_hashes.csv
\* stored in the bucket, with the sha256 that the bucket's file_hashes.csv
\* records for it.
C15_RetryConverges ==
    (runs # <<>> /\ pc = "done") =>
        (LastRun.exitCode = 1 /\ LastRun.listed # {} =>
            \A f \in ListedNames(dataDir[FileHashesCsv]) :
                /\ StoredAsLocal(f)
                /\ RecordedHashes(remote[FileHashesCsv], f) = {sha256(remote[f])})

(***************************************************************************)
(* C16 .. C19: ranges and rows of the series and of the scoreboards.       *)
(***************************************************************************)
PostDaysOf(a) == {posts[id].date : id \in {i \in SelectedIds(posts) : posts[i].author_c = a}}
UserSeriesFile(g, a) ==
    UserFileName(<<PERIODS[g][2], "_post_counts_for_user_">>, userIdMap[a])
\* the period starts of the rows of a series file, as day numbers
RowStarts(f) == [k \in DOMAIN dataDir[f].lines |->
                    ParseDate(Field(f, dataDir[f].lines[k], "date"))]
Ascending(s) == \A j, k \in DOMAIN s : j < k => s[j] < s[k]
UserSeriesWritten ==
    pc \in {"buildPeriodUserPostCountsFiles", "buildPeriodUserPostCountsFiles.blank",
            "buildPosterCountFiles"}
GlobalSeriesWritten == UserSeriesWritten \/ pc = "buildUserPostCountsFiles"

\* C16 as stated: the series file of every author with a post has its rows
\* in ascending period order, exactly one for each period from the period
\* of the author's first post through the period of the last one.
C16_UserSeriesGapFilled ==
    UserSeriesWritten =>
        \A g \in DOMAIN PERIODS : \A a \in AuthorsOf(posts) :
            /\ UserSeriesFile(g, a) \in DOMAIN dataDir
            /\ Ascending(RowStarts(UserSeriesFile(g, a)))
            /\ Range(RowStarts(UserSeriesFile(g, a))) =
                  {DATE_TRUNC(PERIODS[g][1], d) :
                      d \in SetMin(PostDaysOf(a))..SetMax(PostDaysOf(a))}

\* C17 as stated: every global series starts with the row of the period
\* that contains 1999-06-01 and ends with the row of the period that
\* contains today.
C17_GlobalSeriesFullRange ==
    GlobalSeriesWritten =>
        \A g \in DOMAIN PERIODS :
            LET starts == RowStarts(GlobalSeriesFile(g))
            IN  /\ starts # <<>>
                /\ starts[1] = DATE_TRUNC(PERIODS[g][1], firstDay)
                /\ starts[Len(starts)] = DATE_TRUNC(PERIODS[g][1], today)

\* C18 as stated: when no post is selected, every global series written has
\* one all-zero row for every period from the epoch start to today.
C18_EmptySeriesFullRange ==
    (GlobalSeriesWritten /\ SelectedIds(posts) = {}) =>
        \A g \in DOMAIN PERIODS :
            LET f == GlobalSeriesFile(g)
            IN  /\ Ascending(RowStarts(f))
                /\ Range(RowStarts(f)) =
                      {DATE_TRUNC(PERIODS[g][1], d) : d \in firstDay..today}
                /\ \A k \in DOMAIN dataDir[f].lines :
                      Field(f, dataDir[f].lines[k], "total_post_count") = 0

ScoreboardFiles ==
    {f \in DOMAIN dataDir : Len(f.base) = 3 /\ f.base[1] = "post_counts_by_user_for_"}
\* the posts of an author in the period of a scoreboard file
PostsInFile(f, a) ==
    {id \in SelectedIds(posts) :
        /\ posts[id].author_c = a
        /\ ParseDate(f.ymd) <= posts[id].date
        /\ posts[id].date < NextPeriodStart(f.base[2], ParseDate(f.ymd))}
RowsOf(f, a) ==
    {k \in DOMAIN dataDir[f].lines :
        Field(f, dataDir[f].lines[k], "user_id") = userIdMap[a]}

\* C19 as stated: in every scoreboard file an author with posts in the
\* period has exactly one row, whose total is the number of those posts,
\* and an author without a post in the period has no row.
C19_ScoreboardOneRowPerAuthor ==
    pc \in {"buildPeriodUserPostCountsFiles.blank", "buildPosterCountFiles"} =>
        \A f \in ScoreboardFiles : \A a \in AuthorsOf(posts) :
            IF PostsInFile(f, a) = {} THEN RowsOf(f, a) = {}
            ELSE /\ Cardinality(RowsOf(f, a)) = 1
                 /\ \A k \in RowsOf(f, a) :
                       Field(f, dataDir[f].lines[k], "total_post_count")
                          = Cardinality(PostsInFile(f, a))

(***************************************************************************)
(* C20: the new-poster series.                                             *)
(***************************************************************************)
PostCountOf(a) == Cardinality({id \in SelectedIds(posts) : posts[id].author_c = a})
Qualifying(minPosts) == {a \in AuthorsOf(posts) : PostCountOf(a) >= minPosts}
NewPosterFile(g, s) == FileName(<<PERIODS[g][2], "_", NewPosterSeries[s][2]>>)
\* the day lies in the period of row k of the new-poster file
RowContains(g, s, k, d) ==
    LET start == ParseDate(Field(NewPosterFile(g, s),
                                 dataDir[NewPosterFile(g, s)].lines[k], "date"))
    IN  start <= d /\ d < NextPeriodStart(PERIODS[g][1], start)

\* C20 as stated: for each granularity and threshold, every author with at
\* least the threshold of posts is counted in exactly one row, the row of
\* the period that contains the author's first post, and the
\* new_poster_count of every row is the number of such authors whose first
\* post falls in the row's period.
C20_NewPostersCountedOnce ==
    pc = "buildFilesFile" =>
        \A g \in DOMAIN PERIODS : \A s \in DOMAIN NewPosterSeries :
            LET f == NewPosterFile(g, s)
                q == Qualifying(NewPosterSeries[s][1])
                first == [a \in q |-> SetMin(PostDaysOf(a))]
            IN  /\ \A a \in q :
                      Cardinality({k \in DOMAIN dataDir[f].lines :
                                      RowContains(g, s, k, first[a])}) = 1
                /\ \A k \in DOMAIN dataDir[f].lines :
                      Field(f, dataDir[f].lines[k], "new_poster_count") =
                          Cardinality({a \in q : RowContains(g, s, k, first[a])})

(***************************************************************************)
(* C21: quoting of CSV fields.                                             *)
(***************************************************************************)
\* every double quote of a string doubled
RECURSIVE DoubleEveryQuote(_)
DoubleEveryQuote(s) ==
    IF s = <<>> THEN <<>>
    ELSE (IF Head(s) = "\"" THEN <<"\"", "\"">> ELSE <<Head(s)>>)
            \o DoubleEveryQuote(Tail(s))
\* the value that a reader of a quoted field gets: a pair of quotes is one
\* quote character, a single quote closes the field
RECURSIVE UnquoteCsvField(_)
UnquoteCsvField(s) ==
    IF s = <<>> THEN <<>>
    ELSE IF Head(s) # "\"" THEN <<Head(s)>> \o UnquoteCsvField(Tail(s))
    ELSE IF Len(s) >= 2 /\ s[2] = "\"" THEN <<"\"">> \o UnquoteCsvField(Tail(Tail(s)))
    ELSE <<>>

\* C21 as stated: an integer value is written unquoted, any other value is
\* written in double quotes with every double-quote character of the value
\* doubled, whatever the number of quote characters in it, and reading the
\* written field gives the value back.
C21_QuoteDoublesEveryQuote ==
    pc = "written" =>
        \A k \in DOMAIN rs : \A c \in DOMAIN rs[k] :
            LET value == rs[k][c]
                field == dataDir[FileName(<<"users">>)].lines[k][c]
            IN  IF value.t = "int"
                THEN ~field.quoted /\ field.text = value.v
                ELSE /\ field.quoted
                     /\ field.text = DoubleEveryQuote(value.v)
                     /\ UnquoteCsvField(field.text) = value.v

(***************************************************************************)
(* C22: the ids are a function of the ordered list of display names.       *)
(***************************************************************************)
\* the ids of a list of display names, computed from the list alone: the id
\* of the last name from that name and the ids of the names before it
RECURSIVE IdsOfNames(_)
IdsOfNames(names) ==
    IF names = <<>> THEN <<>>
    ELSE LET before == IdsOfNames(SubSeq(names, 1, Len(names) - 1))
         IN  Append(before, AssignUserId(names[Len(names)], Range(before)))
\* the display names of the first k rows of the author query
NamesUpTo(k) == [j \in 1..k |-> rs[j].username]
IdsAssigned == pc # "buildUsersFile"

\* C22: after k authors have been given ids, in the order of the author
\* query, their ids are the ones computed from the display names of these k
\* authors alone, in that order (so two author lists with the same names in
\* the same order get the same ids, whatever the author keys and whatever
\* authors follow), and no step of the run changes an id already given.
C22_IdsDependOnNamesBefore ==
    /\ [](IdsAssigned =>
            \A k \in 1..usersIdx :
                /\ rs[k].user_id = IdsOfNames(NamesUpTo(k))[k]
                /\ userIdMap[rs[k].author_c] = IdsOfNames(NamesUpTo(k))[k])
    /\ [][\A a \in DOMAIN userIdMap :
            a \in DOMAIN userIdMap' /\ userIdMap'[a] = userIdMap[a]]_vars

\* "b.o.b" posts first, two more authors of the prefix bob follow: the third
\* has the id bob3
C22_Witness ==
    /\ pc = "buildPostCountsFile"
    /\ usersIdx = 3
    /\ rs[1].author_c = 5
    /\ rs[1].user_id = <<"b","o","b">>
    /\ rs[3].user_id = <<"b","o","b","3">>

(***************************************************************************)
(* C23: the prefix of a display name.                                      *)
(***************************************************************************)
IsLetter(ch) == ch \in Range(UpperChars) \cup Range(LowerChars)
LettersOf(name) == SelectSeq(name, IsLetter)
\* the first at most 10 letters of the name, in their order, lower-cased
LeadingLetters(name) ==
    [k \in 1..(IF Len(LettersOf(name)) < 10 THEN Len(LettersOf(name)) ELSE 10) |->
        toLowerCase(LettersOf(name)[k])]

InBuildUsersFile == pc \in {"buildUsersFile", "buildUsersFile.forEach"}
UsersInfoCsv == FileName(<<"users_info">>)

\* C24: while buildUsersFile runs, no aggregation has written anything; and
\* from the end of buildUsersFile on (so before the first row of any
\* per-author aggregation or of the new-poster counts is processed) every
\* author of the post table has an id in the map, users.csv and
\* users_info.csv are written with a line for every author, and the map
\* does not change any more.
C24_IdentityBeforeAggregation ==
    /\ [](InBuildUsersFile => DOMAIN dataDir = {})
    /\ [](~InBuildUsersFile =>
            /\ usersIdx = Len(rs)
            /\ DOMAIN userIdMap = AuthorsOf(posts)
            /\ {UsersCsv, UsersInfoCsv} \subseteq DOMAIN dataDir
            /\ Len(dataDir[UsersInfoCsv].lines) = Cardinality(AuthorsOf(posts))
            /\ \A a \in AuthorsOf(posts) :
                  \E k \in DOMAIN dataDir[UsersInfoCsv].lines :
                      Field(UsersInfoCsv, dataDir[UsersInfoCsv].lines[k], "user_id")
                          = userIdMap[a])
    /\ [][~InBuildUsersFile => userIdMap' = userIdMap]_vars

\* the per-author series are about to be built, then the new-poster counts:
\* both authors have their ids
C24_Witness ==
    /\ pc \in {"buildUserPostCountsFiles", "buildNewPosterCountsFile"}
    /\ periodIdx = 1
    /\ Cardinality(AuthorsOf(posts)) = 2
    /\ Cardinality(DOMAIN userIdMap) = 2

(***************************************************************************)
(* C25: the manifest lists the artifacts of the run.                       *)
(***************************************************************************)
\* the files of the data directory that this run wrote, once buildFilesFile
\* has written the two manifests
WrittenInRun == DOMAIN dataDir \ {LeftOverCsv}
ManifestWritten == pc # "buildFilesFile"
LinesOf(csv, filename) == {k \in DOMAIN csv.lines : csv.lines[k][1].text = filename}

\* C25 as stated: once buildFilesFile has run, and until the run ends,
\* file_hashes.csv (and files.csv) has exactly one entry for each artifact
\* that the run wrote other than files.csv and file_hashes.csv, with the
\* sha256 and the size of the content that the artifact has, and no other
\* entry.
C25_ManifestListsRunArtifacts ==
    ManifestWritten =>
        LET hashes == dataDir[FileHashesCsv]
        IN  /\ ListedNames(hashes) = WrittenInRun \ {FilesCsv, FileHashesCsv}
            /\ ListedNames(dataDir[FilesCsv]) = ListedNames(hashes)
            /\ \A f \in ListedNames(hashes) :
                  /\ Cardinality(LinesOf(hashes, f)) = 1
                  /\ Cardinality(LinesOf(dataDir[FilesCsv], f)) = 1
                  /\ \A k \in LinesOf(hashes, f) :
                        /\ hashes.lines[k][2].text = sha256(dataDir[f])
                        /\ hashes.lines[k][3].text = BufferLength(dataDir[f])

(***************************************************************************)
(* C26: an aborted run does not replace the remote manifests.              *)
(***************************************************************************)
Manifests == {FilesCsv, FileHashesCsv}

\* C26: no upload of a run, and so none of a run that aborts at a failed
\* upload, whichever of the list it is, stores or replaces files.csv or
\* file_hashes.csv in the bucket: the two manifests are never in the list of
\* files to upload, and no step changes what the bucket holds under their
\* names.
C26_FailedRunKeepsRemoteManifests ==
    /\ [](UploadListed => Manifests \cap Range(uploadList) = {})
    /\ [][\A f \in Manifests :
            /\ f \in DOMAIN remote' <=> f \in DOMAIN remote
            /\ f \in DOMAIN remote => remote'[f] = remote[f]]_vars

\* the first of two uploads failed; the bucket holds the manifests of an
\* earlier publication, which differ from the ones of this run
C26_Witness ==
    /\ pc = "failed"
    /\ exitCode = 1
    /\ Len(uploadList) = 2
    /\ uploadIdx = 0
    /\ Manifests \subseteq DOMAIN remote
    /\ remote[FileHashesCsv] # dataDir[FileHashesCsv]

(***************************************************************************)
(* The streaming scoreboard builder: the revision of                       *)
(* buildPeriodUserPostCountsFiles that reads one query, by day, through a  *)
(* cursor and keeps an open period per granularity and for "overall".  In  *)
(* that revision go() calls it when buildUsersFile has returned.  A date   *)
(* "" is <<>>; a Dictionary of rows is a function from user ids to rows.   *)
(***************************************************************************)
StreamNouns == <<"day", "week", "month", "year", "overall">>
OverallCsv == FileName(<<"post_counts_by_user_overall">>)

\* tallyByCategory: a switch without default case, then the total
tallyByCategory(row, csvRow) ==
    LET count == row.post_count
        counted ==
            CASE row.category = 1 -> [csvRow EXCEPT !.ontopic_post_count = @ + count]
              [] row.category = 2 -> [csvRow EXCEPT !.nws_post_count = @ + count]
              [] row.category = 3 -> [csvRow EXCEPT !.stupid_post_count = @ + count]
              [] row.category = 4 -> [csvRow EXCEPT !.political_post_count = @ + count]
              [] row.category = 5 -> [csvRow EXCEPT !.tangent_post_count = @ + count]
              [] row.category = 6 -> [csvRow EXCEPT !.informative_post_count = @ + count]
              [] OTHER -> csvRow
    IN  [counted EXCEPT !.total_post_count = @ + count]

newRow(date, userId) == [date |-> date, user_id |-> userId] @@ ZeroCounts

\* Array.prototype.sort() on user ids: by code unit, digits before letters,
\* a proper prefix first
CharCode(ch) == CHOOSE k \in DOMAIN (DigitChars \o LowerChars) :
                    (DigitChars \o LowerChars)[k] = ch
RECURSIVE StringLess(_, _)
StringLess(a, b) ==
    IF b = <<>> THEN FALSE
    ELSE IF a = <<>> THEN TRUE
    ELSE IF Head(a) = Head(b) THEN StringLess(Tail(a), Tail(b))
    ELSE CharCode(Head(a)) < CharCode(Head(b))
SortedKeys(S) ==
    [k \in 1..Cardinality(S) |->
        CHOOSE x \in S : Cardinality({y \in S : StringLess(y, x)}) = k - 1]

\* period.rows.keys().sort().map(x => period.rows.get(x))
PeriodRows(period) ==
    [k \in 1..Cardinality(DOMAIN period.rows) |->
        period.rows[SortedKeys(DOMAIN period.rows)[k]]]

\* the query of the streaming builder: GROUP BY and ORDER BY day, author_c,
\* category
StreamQuery(table) == PeriodUserPostCountsQuery("day", table)

\* writeDateFile that does not record the filename
writeDateFileUnrecorded(acc, periodNoun, dateRows, date) ==
    IF date = <<>> THEN acc
    ELSE LET filename == IF periodNoun = "overall" THEN OverallCsv
                         ELSE ScoreboardFileName(periodNoun, FormatDate(ParseDate(date)))
         IN  [dir |-> writeCsvFile(acc.dir, filename,
                          UserPostCountsCsvRows(periodNoun, dateRows), ScoreboardCols),
              names |-> acc.names]

\* writeDateFile on the data directory and the filenames dictionary
writeDateFile(acc, periodNoun, dateRows, date) ==
    IF date = <<>> THEN acc
    ELSE LET filename == IF periodNoun = "overall" THEN OverallCsv
                         ELSE ScoreboardFileName(periodNoun, FormatDate(ParseDate(date)))
         IN  [dir |-> writeCsvFile(acc.dir, filename,
                          UserPostCountsCsvRows(periodNoun, dateRows), ScoreboardCols),
              names |-> acc.names \cup {filename}]

\* the row callback from period i on; acc holds currentPeriods, the data
\* directory and the filenames dictionary
RECURSIVE rowCallback(_, _, _, _)
rowCallback(row, idMap, acc, i) ==
    IF i > Len(acc.periods) THEN acc
    ELSE LET period == acc.periods[i]
             userId == idMap[row.author_c]
             newPeriodDate ==
                 IF period.noun = "overall" THEN <<1990, 1, 1>>
                 ELSE FormatDate(startOf(period.noun, ParseDate(row.date)))
             written ==
                 IF newPeriodDate # period.date
                 THEN writeDateFile([dir |-> acc.dir, names |-> acc.names],
                                    period.noun, PeriodRows(period), period.date)
                 ELSE [dir |-> acc.dir, names |-> acc.names]
             rows == IF newPeriodDate # period.date THEN <<>> ELSE period.rows
             csvRow == IF userId \in DOMAIN rows THEN rows[userId]
                       ELSE newRow(newPeriodDate, userId)
         IN  rowCallback(row, idMap,
                [periods |-> [acc.periods EXCEPT ![i] =
                                [rows |-> [u \in DOMAIN rows \cup {userId} |->
                                             IF u = userId
                                             THEN tallyByCategory(row, csvRow)
                                             ELSE rows[u]],
                                 date |-> newPeriodDate,
                                 noun |-> period.noun]],
                 dir |-> written.dir,
                 names |-> written.names],
                i + 1)

\* the loop after the cursor: writeDateFile for every open period
RECURSIVE writeOpenPeriods(_, _, _)
writeOpenPeriods(periods, acc, i) ==
    IF i > Len(periods) THEN acc
    ELSE writeOpenPeriods(periods,
            writeDateFile(acc, periods[i].noun, PeriodRows(periods[i]), periods[i].date),
            i + 1)

\* buildPeriodUserPostCountsFiles is entered: filenames, currentPeriods
StreamBegin ==
    /\ pc = "buildPostCountsFile"
    /\ filenames' = {}
    /\ currentPeriods' = [i \in DOMAIN StreamNouns |->
                            [rows |-> <<>>, date |-> <<>>, noun |-> StreamNouns[i]]]
    /\ cursor' = 0
    /\ pc' = "buildPeriodUserPostCountsFiles.cursor"
    /\ UNCHANGED <<runs, posts, today, rs, usersIdx, seen, userIdMap, periodIdx, dataDir,
                   allPeriods, remote, uploadList, uploadIdx, exitCode>>

\* the cursor delivers the next row of the query to the callback
StreamRow ==
    /\ pc = "buildPeriodUserPostCountsFiles.cursor"
    /\ cursor < Len(StreamQuery(posts))
    /\ LET done == rowCallback(StreamQuery(posts)[cursor + 1], userIdMap,
                      [periods |-> currentPeriods, dir |-> dataDir, names |-> filenames],
                      1)
       IN  /\ currentPeriods' = done.periods
           /\ dataDir' = done.dir
           /\ filenames' = done.names
    /\ cursor' = cursor + 1
    /\ UNCHANGED <<runs, posts, today, pc, rs, usersIdx, seen, userIdMap, periodIdx,
                   allPeriods, remote, uploadList, uploadIdx, exitCode>>

\* the cursor is at its end: the open periods are written
StreamEnd ==
    /\ pc = "buildPeriodUserPostCountsFiles.cursor"
    /\ cursor = Len(StreamQuery(posts))
    /\ LET done == writeOpenPeriods(currentPeriods,
                                    [dir |-> dataDir, names |-> filenames], 1)
       IN  /\ dataDir' = done.dir
           /\ filenames' = done.names
    /\ pc' = "buildPeriodUserPostCountsFiles.blank"
    /\ UNCHANGED <<currentPeriods, cursor, runs, posts, today, rs, usersIdx, seen,
                   userIdMap, periodIdx, allPeriods, remote, uploadList, uploadIdx,
                   exitCode>>

(***************************************************************************)
(* The streaming inputs: up to MaxPosts posts of two authors, in id order, *)
(* on days of one week, of the next week, of the next month and of the     *)
(* next year, of a known and of an unknown category.                       *)
(***************************************************************************)
StreamAuthors == {1, 4}
StreamDays == {firstDay, firstDay + 4, firstDay + 5, firstDay + 30, firstDay + 214}
StreamCategories == {2, 7}
StreamToday == firstDay + 215

StreamTables(n) ==
    {[id \in 1..n |-> Post(a[id], d[id], c[id])] :
        a \in [1..n -> StreamAuthors],
        d \in {dd \in [1..n -> StreamDays] : \A i, j \in 1..n : i < j => dd[i] <= dd[j]},
        c \in [1..n -> StreamCategories]}

InitStream ==
    /\ \E n \in 0..MaxPosts : posts \in StreamTables(n)
    /\ today = StreamToday
    /\ Blank

NextStream ==
    \/ UsersQueryStep
    \/ UsersForEach
    \/ UsersWrite
    \/ StreamBegin
    \/ StreamRow
    \/ StreamEnd
    \/ BuildBlankPeriodFiles

SpecStream == InitStream /\ [][NextStream]_vars

(***************************************************************************)
(* C27: the files of the streaming scoreboard builder.                     *)
(***************************************************************************)
StreamFiles == ScoreboardFiles \cup ({OverallCsv} \cap DOMAIN dataDir)
\* the posts of an author that a file of the streaming builder covers
PostsCovered(f, a) ==
    IF f = OverallCsv
    THEN {id \in SelectedIds(posts) : posts[id].author_c = a}
    ELSE PostsInFile(f, a)
ScoreboardsBuilt == pc = "buildPosterCountFiles"

\* C27: with the rows of the query in ascending day order, (1) no step of
\* the run changes or removes a scoreboard file that is written (each day,
\* week, month and year file and the overall file is written once, and the
\* blank-file pass overwrites no file that has data rows), and (2) when the
\* builder has ended every file holds the tally of all the posts of its
\* period: one row for each author with posts in the period, with their
\* number as total and their number per category, no other row, and every
\* post is covered by a file of each granularity and by the overall file.
C27_StreamFilesWrittenOnce ==
    /\ [][\A f \in StreamFiles : f \in DOMAIN dataDir' /\ dataDir'[f] = dataDir[f]]_vars
    /\ [](ScoreboardsBuilt =>
            /\ \A f \in StreamFiles :
                  /\ \A a \in AuthorsOf(posts) :
                        IF PostsCovered(f, a) = {} THEN RowsOf(f, a) = {}
                        ELSE /\ Cardinality(RowsOf(f, a)) = 1
                             /\ \A k \in RowsOf(f, a) :
                                   /\ Field(f, dataDir[f].lines[k], "total_post_count")
                                         = Cardinality(PostsCovered(f, a))
                                   /\ Field(f, dataDir[f].lines[k], "nws_post_count")
                                         = Cardinality({id \in PostsCovered(f, a) :
                                                           posts[id].category = 2})
                                   /\ CategorySum(f, dataDir[f].lines[k])
                                         = Cardinality({id \in PostsCovered(f, a) :
                                                           posts[id].category \in 1..6})
                  /\ Len(dataDir[f].lines) =
                        Cardinality({a \in AuthorsOf(posts) : PostsCovered(f, a) # {}})
            /\ \A id \in SelectedIds(posts) :
                  /\ \A noun \in Nouns :
                        \E f \in ScoreboardFiles :
                            f.base[2] = noun /\ id \in PostsInFile(f, posts[id].author_c)
                  /\ OverallCsv \in DOMAIN dataDir)

\* two authors post in one week, on different days: the week file and the
\* overall file have a row for each, a day between the two has a blank file
C27_Witness ==
    /\ ScoreboardsBuilt
    /\ cursor = 2
    /\ {OverallCsv, ScoreboardFileName("week", FormatDate(firstDay - 2))}
          \subseteq DOMAIN dataDir
    /\ Len(dataDir[ScoreboardFileName("week", FormatDate(firstDay - 2))].lines) = 2
    /\ Len(dataDir[OverallCsv].lines) = 2
    /\ Len(dataDir[ScoreboardFileName("day", FormatDate(firstDay))].lines) = 1
    /\ Len(dataDir[ScoreboardFileName("day", FormatDate(firstDay + 1))].lines) = 0

====
